---------------------------- MODULE Spec2Model ----------------------------
(***************************************************************************)
(* A model of the request-handling pipeline of the LLM gateway:            *)
(* src/main.py (chat_completions), src/security/{policy_gate,kill_switch,   *)
(* rate_limiter,budget_guard}.py, src/router/{tier_router,                  *)
(* groq_classifier}.py and src/cache/exact_cache.py.                        *)
(*                                                                         *)
(* Conventions.                                                            *)
(*  - Money is counted in cost units of 5e-8 USD, the largest unit in      *)
(*    which every price of calculate_cost is an integer per token.         *)
(*  - Time is counted in whole seconds (time.time()).                      *)
(*  - Python None is the string "None"; a dict is a record.                *)
(*  - Metrics, logging and response latency are monitoring only and are    *)
(*    not part of the state.                                               *)
(*                                                                         *)
(* Specifications.                                                         *)
(*  SpecBG  the BudgetGuard object driven through its public methods.      *)
(*  SpecKS  the KillSwitch object (with its budget guard) driven through   *)
(*          enable, disable, record_request and check.                     *)
(*  SpecRL  the RateLimiter object driven through record and check.        *)
(*  Spec    the gateway: concurrent requests through chat_completions,     *)
(*          one action per stage of the handler.                           *)
(*  The later sections add one specification per further component.        *)
(***************************************************************************)
EXTENDS Integers, Sequences, FiniteSets, TLC

VARIABLES
    now,            \* time.time(), seconds
    today,          \* date.today(), as a day number
    budget_guard,   \* BudgetGuard: limits, spending table, transactions table
    kill_switch,    \* KillSwitch: state, _recent_requests, _recent_errors, _last_error_check
    rate_limiter,   \* RateLimiter: requests_per_minute, tokens_per_minute, buckets
    exact_cache,    \* ExactCache: the rows of table cache, by cache_key
    providers,      \* which of local_provider, groq_provider, anthropic_provider are set
    reqs,           \* the requests in flight: position in chat_completions and locals
    last,           \* the value returned by the last call of a component method
    hist,           \* history of calls (what was called, not program state)
    embedding_service,  \* EmbeddingService: its clients and its disk cache
    semantic_cache,     \* SemanticCache: the rows of table semantic_cache
    bm25_search,        \* BM25Search: the rows of table query_index
    policy_gate,        \* PolicyGate: the compiled pattern lists, by category
    circuit_breaker     \* CircuitBreaker: state, failures, successes, last_failure_time

\* The objects chat_completions does not write to.
components == <<embedding_service, semantic_cache, bm25_search, policy_gate, circuit_breaker>>

vars == <<now, today, budget_guard, kill_switch, rate_limiter, exact_cache,
          providers, reqs, last, hist, components>>

None == "None"

(***************************************************************************)
(* Bounds of the model.                                                    *)
(***************************************************************************)
MaxTime == 61          \* the clock stops here
MaxDay == 1            \* days 0..MaxDay
MaxTx == 3             \* rows of the transactions table
MaxSpendDollars == 51  \* the ledger of a day is not driven beyond this
MaxRecent == 11        \* outcomes recorded in the kill switch's counters
MaxRecords == 4        \* record calls on the rate limiter
RequestsPerMinute == 2 \* RateLimiter(requests_per_minute=...) in SpecRL
TokensPerMinute == 8   \* RateLimiter(tokens_per_minute=...) in SpecRL

(***************************************************************************)
(* Helpers.                                                                *)
(***************************************************************************)
RECURSIVE SumSeq(_)
SumSeq(s) == IF s = <<>> THEN 0 ELSE Head(s) + SumSeq(Tail(s))

Max(a, b) == IF a >= b THEN a ELSE b

\* The clock: time passes between calls.
TickDeltas == {30, 31}

Tick ==
    /\ \E d \in TickDeltas :
        /\ now + d <= MaxTime
        /\ now' = now + d
    /\ UNCHANGED <<components, today, budget_guard, kill_switch, rate_limiter, exact_cache,
                   providers, reqs, last, hist>>

(***************************************************************************)
(* Budget guard (src/security/budget_guard.py).                            *)
(***************************************************************************)
UnitsPerDollar == 20000000

SoftLimit == 5 * UnitsPerDollar
MediumLimit == 15 * UnitsPerDollar
HardLimit == 50 * UnitsPerDollar

\* BudgetGuard.__init__ and _init_db on a fresh database.
BudgetGuardInit ==
    [ soft_limit |-> SoftLimit,
      medium_limit |-> MediumLimit,
      hard_limit |-> HardLimit,
      spending |-> <<>>,        \* table spending: date -> row (a function)
      transactions |-> <<>> ]   \* table transactions, in insertion order

SpendingRow0 ==
    [ total_cost |-> 0, request_count |-> 0, cheap_cost |-> 0,
      premium_cost |-> 0, cache_hits |-> 0 ]

\* _ensure_today_record: INSERT OR IGNORE INTO spending (date).
EnsureTodayRecord(bg, day) ==
    IF day \in DOMAIN bg.spending
    THEN bg
    ELSE [bg EXCEPT !.spending = bg.spending @@ (day :> SpendingRow0)]

\* get_daily_spent: the value read (the row is ensured first).
GetDailySpent(bg, day) == EnsureTodayRecord(bg, day).spending[day].total_cost

\* BudgetGuard.check: the dict returned.
BudgetCheckHardOff(bg, day, estimated_cost, tier) ==
    LET daily_spent == GetDailySpent(bg, day)
        projected == daily_spent + estimated_cost
    IN  IF projected > bg.medium_limit /\ tier = "premium"
        THEN [allowed |-> FALSE, level |-> "medium", suggest_tier |-> "cheap",
              daily_spent |-> daily_spent, limit |-> bg.medium_limit]
        ELSE IF projected > bg.soft_limit
        THEN [allowed |-> TRUE, level |-> "soft", suggest_tier |-> None,
              daily_spent |-> daily_spent, limit |-> bg.soft_limit]
        ELSE [allowed |-> TRUE, level |-> "normal", suggest_tier |-> None,
              daily_spent |-> daily_spent, limit |-> bg.hard_limit]

BudgetCheckSoftInclusive(bg, day, estimated_cost, tier) ==
    LET daily_spent == GetDailySpent(bg, day)
        projected == daily_spent + estimated_cost
    IN  IF projected > bg.hard_limit
        THEN [allowed |-> FALSE, level |-> "hard", suggest_tier |-> None,
              daily_spent |-> daily_spent, limit |-> bg.hard_limit]
        ELSE IF projected > bg.medium_limit /\ tier = "premium"
        THEN [allowed |-> FALSE, level |-> "medium", suggest_tier |-> "cheap",
              daily_spent |-> daily_spent, limit |-> bg.medium_limit]
        ELSE IF projected >= bg.soft_limit
        THEN [allowed |-> TRUE, level |-> "soft", suggest_tier |-> None,
              daily_spent |-> daily_spent, limit |-> bg.soft_limit]
        ELSE [allowed |-> TRUE, level |-> "normal", suggest_tier |-> None,
              daily_spent |-> daily_spent, limit |-> bg.hard_limit]

\* check with the medium rule applied to every tier.
BudgetCheckMediumAnyTier(bg, day, estimated_cost, tier) ==
    LET daily_spent == GetDailySpent(bg, day)
        projected == daily_spent + estimated_cost
    IN  IF projected > bg.hard_limit
        THEN [allowed |-> FALSE, level |-> "hard", suggest_tier |-> None,
              daily_spent |-> daily_spent, limit |-> bg.hard_limit]
        ELSE IF projected > bg.medium_limit
        THEN [allowed |-> FALSE, level |-> "medium", suggest_tier |-> "cheap",
              daily_spent |-> daily_spent, limit |-> bg.medium_limit]
        ELSE IF projected > bg.soft_limit
        THEN [allowed |-> TRUE, level |-> "soft", suggest_tier |-> None,
              daily_spent |-> daily_spent, limit |-> bg.soft_limit]
        ELSE [allowed |-> TRUE, level |-> "normal", suggest_tier |-> None,
              daily_spent |-> daily_spent, limit |-> bg.hard_limit]

BudgetCheck(bg, day, estimated_cost, tier) ==
    LET daily_spent == GetDailySpent(bg, day)
        projected == daily_spent + estimated_cost
    IN  IF projected > bg.hard_limit
        THEN [allowed |-> FALSE, level |-> "hard", suggest_tier |-> None,
              daily_spent |-> daily_spent, limit |-> bg.hard_limit]
        ELSE IF projected > bg.medium_limit /\ tier = "premium"
        THEN [allowed |-> FALSE, level |-> "medium", suggest_tier |-> "cheap",
              daily_spent |-> daily_spent, limit |-> bg.medium_limit]
        ELSE IF projected > bg.soft_limit
        THEN [allowed |-> TRUE, level |-> "soft", suggest_tier |-> None,
              daily_spent |-> daily_spent, limit |-> bg.soft_limit]
        ELSE [allowed |-> TRUE, level |-> "normal", suggest_tier |-> None,
              daily_spent |-> daily_spent, limit |-> bg.hard_limit]

\* UPDATE spending SET ... WHERE date = day: no row of that date, no change.
UpdateSpending(spending, day, cost, tier) ==
    IF day \notin DOMAIN spending THEN spending
    ELSE IF tier = "cheap"
    THEN [spending EXCEPT ![day].total_cost = @ + cost,
                          ![day].request_count = @ + 1,
                          ![day].cheap_cost = @ + cost]
    ELSE [spending EXCEPT ![day].total_cost = @ + cost,
                          ![day].request_count = @ + 1,
                          ![day].premium_cost = @ + cost]

\* BudgetGuard.record_spend: the object after the call.  The method reads the
\* date twice: _ensure_today_record() inserts the row of the date it reads
\* (ensured), the UPDATE and the INSERT use the date read after it (day).
RecordSpendAt(bg, ensured, day, cost, tier, model) ==
    LET b == EnsureTodayRecord(bg, ensured)
    IN  [b EXCEPT !.spending = UpdateSpending(@, day, cost, tier),
                  !.transactions = Append(@, [date |-> day, cost |-> cost,
                                              tier |-> tier, model |-> model])]

\* record_spend on a day that does not end during the call.
RecordSpend(bg, day, cost, tier, model) ==
    RecordSpendAt(bg, day, day, cost, tier, model)

\* BudgetGuard.record_cache_hit.
RecordCacheHit(bg, day) ==
    LET b == EnsureTodayRecord(bg, day)
    IN  [b EXCEPT !.spending[day].cache_hits = @ + 1]

\* The level get_status derives from today's total_cost.
StatusLevel(bg, daily_spent) ==
    IF daily_spent >= bg.hard_limit THEN "hard"
    ELSE IF daily_spent >= bg.medium_limit THEN "medium"
    ELSE IF daily_spent >= bg.soft_limit THEN "soft"
    ELSE "normal"

\* round(x, 4) of an amount in cost units: to the nearest 1e-4 USD.
Round4(u) ==
    LET q == UnitsPerDollar \div 10000
    IN  IF u >= 0 THEN ((u + q \div 2) \div q) * q
        ELSE -(((-u) + q \div 2) \div q) * q

\* BudgetGuard.get_status: the dict returned.
GetStatus(bg, day) ==
    LET row == EnsureTodayRecord(bg, day).spending[day]
        daily_spent == row.total_cost
    IN  [ date |-> day,
          daily_spent |-> Round4(daily_spent),
          request_count |-> row.request_count,
          cheap_cost |-> Round4(row.cheap_cost),
          premium_cost |-> Round4(row.premium_cost),
          cache_hits |-> row.cache_hits,
          level |-> StatusLevel(bg, daily_spent),
          remaining |-> Round4(bg.hard_limit - daily_spent) ]

(***************************************************************************)
(* Kill switch (src/security/kill_switch.py).                              *)
(***************************************************************************)
MinSample == 10           \* _get_error_rate: "Need minimum sample"
ErrorWindow == 60         \* record_request: "Reset counters every minute"
SecondsPerDay == 86400
ManualRetryAfter == 3600

KillSwitchState0 ==
    [mode |-> "off", reason |-> "", activated_at |-> None, activated_by |-> ""]

\* KillSwitch.__init__ at time t; error_threshold 0.5 is kept as 1/2.
KillSwitchInit(t) ==
    [ state |-> KillSwitchState0,
      error_threshold |-> [num |-> 1, den |-> 2],
      throttle_delay |-> 2,
      recent_requests |-> 0,
      recent_errors |-> 0,
      last_error_check |-> t ]

KillSwitchModes == {"off", "throttle", "degrade", "kill"}

\* KillSwitch._activate
Activate(ks, mode, reason, activated_by, t) ==
    [ks EXCEPT !.state = [mode |-> mode, reason |-> reason,
                          activated_at |-> t, activated_by |-> activated_by]]

\* KillSwitch.enable: an unknown mode string becomes kill.
Enable(ks, mode, reason, t) ==
    Activate(ks, IF mode \in KillSwitchModes THEN mode ELSE "kill", reason, "manual", t)

\* KillSwitch.disable
Disable(ks) == [ks EXCEPT !.state = KillSwitchState0]

\* KillSwitch.record_request
RecordRequest(ks, success, t) ==
    LET k == IF t - ks.last_error_check > ErrorWindow
             THEN [ks EXCEPT !.recent_requests = 0, !.recent_errors = 0,
                             !.last_error_check = t]
             ELSE ks
    IN  [k EXCEPT !.recent_requests = @ + 1,
                  !.recent_errors = IF success THEN @ ELSE @ + 1]

\* error_rate > self.error_threshold, with _get_error_rate's minimum sample:
\* below MinSample requests the rate is 0.0, which exceeds no threshold >= 0.
ErrorRateExceeds(ks) ==
    /\ ks.recent_requests >= MinSample
    /\ ks.recent_errors * ks.error_threshold.den
         > ks.error_threshold.num * ks.recent_requests

\* KillSwitch._seconds_until_midnight
SecondsUntilMidnight(t) == ((t \div SecondsPerDay) + 1) * SecondsPerDay - t

Gate(blocked, mode, reason, retry_after, force_tier, throttle_delay) ==
    [ blocked |-> blocked, mode |-> mode, reason |-> reason,
      retry_after |-> retry_after, force_tier |-> force_tier,
      throttle_delay |-> throttle_delay ]

\* KillSwitch.check: the dict returned (gate), the kill switch after the call
\* (ks) and the budget guard after the call (bg: get_status ensures today's row).
KillSwitchCheck(ks, bg, day, t) ==
    IF ks.state.mode = "kill"
    THEN [ gate |-> Gate(TRUE, "kill",
                         IF ks.state.reason # "" THEN ks.state.reason
                         ELSE "Kill switch active",
                         ManualRetryAfter, None, None),
           ks |-> ks, bg |-> bg ]
    ELSE IF ks.state.mode = "degrade"
    THEN [ gate |-> Gate(FALSE, "degrade", "Degraded mode - only cheap tier",
                         None, "cheap", None),
           ks |-> ks, bg |-> bg ]
    ELSE IF ks.state.mode = "throttle"
    THEN [ gate |-> Gate(FALSE, "throttle", "Throttle mode active",
                         None, None, ks.throttle_delay),
           ks |-> ks, bg |-> bg ]
    ELSE LET bg2 == EnsureTodayRecord(bg, day)
             level == GetStatus(bg, day).level
         IN  IF level = "hard"
             THEN [ gate |-> Gate(TRUE, "kill", "Daily budget exhausted",
                                  SecondsUntilMidnight(t), None, None),
                    ks |-> Activate(ks, "kill", "Budget hard limit reached", "budget", t),
                    bg |-> bg2 ]
             ELSE IF level = "medium"
             THEN [ gate |-> Gate(FALSE, "degrade",
                                  "Budget medium limit - premium throttled",
                                  None, "cheap", None),
                    ks |-> ks, bg |-> bg2 ]
             ELSE IF ErrorRateExceeds(ks)
             THEN [ gate |-> Gate(FALSE, "throttle", "High error rate", None, None,
                                  ks.throttle_delay),
                    ks |-> Activate(ks, "throttle", "High error rate", "error_rate", t),
                    bg |-> bg2 ]
             ELSE [ gate |-> Gate(FALSE, "off", "Normal operation", None, None, None),
                    ks |-> ks, bg |-> bg2 ]

(***************************************************************************)
(* Rate limiter (src/security/rate_limiter.py).                            *)
(***************************************************************************)
WindowSeconds == 60

BucketNames == {"global", "cheap", "premium"}

RateBucket0 == [requests |-> <<>>, tokens |-> <<>>]

\* RateLimiter.__init__: requests_per_minute and tokens_per_minute are
\* constructor arguments (Settings.RATE_LIMIT_RPM / RATE_LIMIT_TPM).
RateLimiterInit(rpm, tpm) ==
    [ requests_per_minute |-> rpm,
      tokens_per_minute |-> tpm,
      window_seconds |-> WindowSeconds,
      buckets |-> [b \in BucketNames |-> RateBucket0] ]

\* tier_limits: the multipliers 1.0, 2.0, 1.5, 0.5 as fractions.
TierLimits(tier) ==
    CASE tier = "cheap"   -> [requests |-> <<2, 1>>, tokens |-> <<3, 2>>]
      [] tier = "premium" -> [requests |-> <<1, 2>>, tokens |-> <<1, 2>>]
      [] OTHER            -> [requests |-> <<1, 1>>, tokens |-> <<1, 1>>]

\* int(base * multiplier) for base >= 0
Scaled(base, frac) == (base * frac[1]) \div frac[2]

RpmLimit(rl, tier) == Scaled(rl.requests_per_minute, TierLimits(tier).requests)
TpmLimit(rl, tier) == Scaled(rl.tokens_per_minute, TierLimits(tier).tokens)

\* "if tier not in self.buckets: tier = 'global'"
BucketOf(tier) == IF tier \in BucketNames THEN tier ELSE "global"

\* A cleanup that purges nothing.
PopExpiredNone(entries, cutoff) == entries

\* while entries and entries[0][0] < cutoff: entries.popleft()
RECURSIVE PopExpired(_, _)
PopExpired(entries, cutoff) ==
    IF entries # <<>> /\ Head(entries)[1] < cutoff
    THEN PopExpired(Tail(entries), cutoff)
    ELSE entries

\* RateBucket.cleanup
Cleanup(bucket, t, window) ==
    [ requests |-> PopExpired(bucket.requests, t - window),
      tokens |-> PopExpired(bucket.tokens, t - window) ]

\* RateBucket.request_count / token_count
RequestCount(bucket) == Len(bucket.requests)
TokenCount(bucket) == SumSeq([i \in 1..Len(bucket.tokens) |-> bucket.tokens[i][2]])

\* RateBucket.add at time t
BucketAdd(bucket, tokens, t) ==
    [ requests |-> Append(bucket.requests, <<t, 1>>),
      tokens |-> Append(bucket.tokens, <<t, tokens>>) ]

\* RateLimiter._calculate_wait_time
CalculateWaitTime(rl, entries, t) ==
    IF entries = <<>> THEN 0
    ELSE Max(0, (Head(entries)[1] + rl.window_seconds) - t)

\* RateLimiter.record that appends to the global bucket only.
RateRecordGlobalOnly(rl, tokens, tier, t) ==
    [rl EXCEPT !.buckets["global"] = BucketAdd(@, tokens, t)]

\* RateLimiter.record at time t: the object after the call.
RateRecord(rl, tokens, tier, t) ==
    LET b == BucketOf(tier)
        r1 == [rl EXCEPT !.buckets[b] = BucketAdd(@, tokens, t)]
    IN  [r1 EXCEPT !.buckets["global"] = BucketAdd(@, tokens, t)]

\* RateLimiter.check at time t: the tuple returned (allowed, message, and the
\* wait the message reports) and the object after the call (rl).
RateCheck(rl, estimated_tokens, tier, t) ==
    LET b == BucketOf(tier)
        r1 == [rl EXCEPT !.buckets[b] = Cleanup(@, t, rl.window_seconds)]
        r2 == [r1 EXCEPT !.buckets["global"] = Cleanup(@, t, rl.window_seconds)]
        bucket == r2.buckets[b]
        global_bucket == r2.buckets["global"]
        rpm_limit == RpmLimit(rl, b)
        tpm_limit == TpmLimit(rl, b)
    IN  IF RequestCount(bucket) >= rpm_limit
        THEN [ allowed |-> FALSE, message |-> "Request limit exceeded",
               wait |-> CalculateWaitTime(rl, bucket.requests, t), rl |-> r2 ]
        ELSE IF TokenCount(bucket) + estimated_tokens > tpm_limit
        THEN [ allowed |-> FALSE, message |-> "Token limit exceeded",
               wait |-> CalculateWaitTime(rl, bucket.tokens, t), rl |-> r2 ]
        ELSE IF RequestCount(global_bucket) >= rl.requests_per_minute
        THEN [ allowed |-> FALSE, message |-> "Global request limit exceeded",
               wait |-> CalculateWaitTime(rl, global_bucket.requests, t), rl |-> r2 ]
        ELSE IF TokenCount(global_bucket) + estimated_tokens > rl.tokens_per_minute
        THEN [ allowed |-> FALSE, message |-> "Global token limit exceeded",
               wait |-> CalculateWaitTime(rl, global_bucket.tokens, t), rl |-> r2 ]
        ELSE [ allowed |-> TRUE, message |-> "OK", wait |-> 0, rl |-> r2 ]

(***************************************************************************)
(* Initial values shared by the specifications.                            *)
(***************************************************************************)
NoProviders == [local |-> FALSE, groq |-> FALSE, anthropic |-> FALSE]
NoCall == [op |-> "none"]
NoHistory == [rl_log |-> <<>>, manual |-> FALSE]

\* The components a specification does not drive are left out of it.
ComponentsInit ==
    /\ embedding_service = <<>>
    /\ semantic_cache = <<>>
    /\ bm25_search = <<>>
    /\ policy_gate = <<>>
    /\ circuit_breaker = <<>>

(***************************************************************************)
(* SpecBG: the budget guard alone.                                         *)
(***************************************************************************)
\* Costs recorded (5 and 45 USD reach the soft and the hard limit exactly, one
\* more unit passes them), costs estimated, and tiers passed.
BGCosts == {1, 5 * UnitsPerDollar, 45 * UnitsPerDollar}
BGEstimates == {0, 1}
BGTiers == {"cheap", "premium"}

\* The objects of the handler as constructed, with no request and no call.
IdleInit ==
    /\ now = 0
    /\ today = 0
    /\ budget_guard = BudgetGuardInit
    /\ kill_switch = KillSwitchInit(0)
    /\ rate_limiter = RateLimiterInit(RequestsPerMinute, TokensPerMinute)
    /\ exact_cache = <<>>
    /\ providers = NoProviders
    /\ reqs = <<>>
    /\ last = NoCall
    /\ hist = NoHistory

InitBG ==
    /\ ComponentsInit
    /\ IdleInit

\* budget_guard.record_spend(cost, tier); the day may end between the two
\* date.today() of the call.
BGRecordSpend ==
    /\ Len(budget_guard.transactions) < MaxTx
    /\ \E cost \in BGCosts, tier \in BGTiers :
        /\ GetDailySpent(budget_guard, today) + cost <= MaxSpendDollars * UnitsPerDollar
        /\ \E day \in {today} \cup {d \in {today + 1} : d <= MaxDay} :
              /\ budget_guard' = RecordSpendAt(budget_guard, today, day, cost, tier, None)
              /\ today' = day
        /\ last' = [op |-> "record_spend", cost |-> cost, tier |-> tier]
    /\ UNCHANGED <<components, now, kill_switch, rate_limiter, exact_cache, providers,
                   reqs, hist>>

\* budget_guard.check(estimated_cost, tier)
BGCheck ==
    /\ \E est \in BGEstimates, tier \in BGTiers :
        /\ budget_guard' = EnsureTodayRecord(budget_guard, today)
        /\ last' = [op |-> "check", estimated_cost |-> est, tier |-> tier,
                    result |-> BudgetCheck(budget_guard, today, est, tier)]
    /\ UNCHANGED <<components, now, today, kill_switch, rate_limiter, exact_cache, providers,
                   reqs, hist>>

\* budget_guard.get_status()
BGGetStatus ==
    /\ budget_guard' = EnsureTodayRecord(budget_guard, today)
    /\ last' = [op |-> "get_status", result |-> GetStatus(budget_guard, today)]
    /\ UNCHANGED <<components, now, today, kill_switch, rate_limiter, exact_cache, providers,
                   reqs, hist>>

\* The date changes: date.today() returns the next day from now on.
Midnight ==
    /\ today < MaxDay
    /\ today' = today + 1
    /\ UNCHANGED <<components, now, budget_guard, kill_switch, rate_limiter, exact_cache,
                   providers, reqs, last, hist>>

NextBG == BGRecordSpend \/ BGCheck \/ BGGetStatus \/ Midnight

SpecBG == InitBG /\ [][NextBG]_vars

(***************************************************************************)
(* SpecKS: the kill switch with its budget guard.                          *)
(***************************************************************************)
EnableModes == {"kill", "degrade", "throttle", "off", "panic"}
KSCosts == {15 * UnitsPerDollar, 35 * UnitsPerDollar}

InitKS == InitBG

\* kill_switch.enable(mode)
KSEnable ==
    /\ \E mode \in EnableModes :
        /\ kill_switch' = Enable(kill_switch, mode, "Manual activation", now)
        /\ last' = [op |-> "enable", mode |-> mode]
    /\ hist' = [hist EXCEPT !.manual = TRUE]
    /\ UNCHANGED <<components, now, today, budget_guard, rate_limiter, exact_cache, providers, reqs>>

\* kill_switch.disable()
KSDisable ==
    /\ kill_switch' = Disable(kill_switch)
    /\ last' = [op |-> "disable"]
    /\ hist' = [hist EXCEPT !.manual = FALSE]
    /\ UNCHANGED <<components, now, today, budget_guard, rate_limiter, exact_cache, providers, reqs>>

\* kill_switch.record_request(success)
KSRecordRequest ==
    /\ \E success \in BOOLEAN :
        /\ RecordRequest(kill_switch, success, now).recent_requests <= MaxRecent
        /\ kill_switch' = RecordRequest(kill_switch, success, now)
        /\ last' = [op |-> "record_request", success |-> success]
    /\ UNCHANGED <<components, now, today, budget_guard, rate_limiter, exact_cache, providers,
                   reqs, hist>>

\* kill_switch.check()
KSCheck ==
    /\ LET r == KillSwitchCheck(kill_switch, budget_guard, today, now)
       IN  /\ kill_switch' = r.ks
           /\ budget_guard' = r.bg
           /\ last' = [op |-> "ks_check", result |-> r.gate]
    /\ UNCHANGED <<components, now, today, rate_limiter, exact_cache, providers, reqs, hist>>

\* The gateway records the cost of a request: budget_guard.record_spend(cost).
KSSpend ==
    /\ Len(budget_guard.transactions) < MaxTx
    /\ \E cost \in KSCosts :
        /\ GetDailySpent(budget_guard, today) + cost <= MaxSpendDollars * UnitsPerDollar
        /\ budget_guard' = RecordSpend(budget_guard, today, cost, "premium", None)
        /\ last' = [op |-> "record_spend", cost |-> cost, tier |-> "premium"]
    /\ UNCHANGED <<components, now, today, kill_switch, rate_limiter, exact_cache, providers,
                   reqs, hist>>

NextKS == KSEnable \/ KSDisable \/ KSRecordRequest \/ KSCheck \/ KSSpend \/ Tick

SpecKS == InitKS /\ [][NextKS]_vars

\* SpecKD: the kill switch over the change of day, with no manual enable()
\* or disable(): requests are checked, their cost is recorded, time passes.
NextKD == KSCheck \/ KSSpend \/ Tick \/ Midnight

SpecKD == InitKS /\ [][NextKD]_vars

(***************************************************************************)
(* SpecRL: the rate limiter alone.                                         *)
(***************************************************************************)
RLTiers == {"global", "cheap", "premium", "local"}   \* "local" has no bucket
\* The (tokens, tier) pairs recorded and the token estimates checked.
RLRecords == {<<2, "global">>, <<3, "cheap">>, <<1, "premium">>}
RLEstimates == {1}

InitRL == InitBG

\* rate_limiter.record(tokens, tier)
RLRecord ==
    /\ Len(hist.rl_log) < MaxRecords
    /\ \E rec \in RLRecords :
        /\ rate_limiter' = RateRecord(rate_limiter, rec[1], rec[2], now)
        /\ hist' = [hist EXCEPT !.rl_log = Append(@, [t |-> now, tier |-> rec[2]])]
        /\ last' = [op |-> "record", tokens |-> rec[1], tier |-> rec[2]]
    /\ UNCHANGED <<components, now, today, budget_guard, kill_switch, exact_cache, providers, reqs>>

\* rate_limiter.check(estimated_tokens, tier)
RLCheck ==
    /\ \E est \in RLEstimates, tier \in RLTiers :
        LET r == RateCheck(rate_limiter, est, tier, now)
        IN  /\ rate_limiter' = r.rl
            /\ last' = [op |-> "rl_check", estimated_tokens |-> est, tier |-> tier,
                        allowed |-> r.allowed, message |-> r.message, wait |-> r.wait]
    /\ UNCHANGED <<components, now, today, budget_guard, kill_switch, exact_cache, providers,
                   reqs, hist>>

NextRL == RLRecord \/ RLCheck \/ Tick

SpecRL == InitRL /\ [][NextRL]_vars

(***************************************************************************)
(* Claims about the budget guard (SpecBG).                                 *)
(***************************************************************************)
\* Estimated costs and tiers the claims range over.
ClaimEstimates ==
    {0, 1, 5 * UnitsPerDollar, 10 * UnitsPerDollar, 45 * UnitsPerDollar, 50 * UnitsPerDollar}
ClaimTiers == {"cheap", "premium", "local", "global"}

TodaySpent == GetDailySpent(budget_guard, today)

LimitsOrdered ==
    /\ 0 < budget_guard.soft_limit
    /\ budget_guard.soft_limit < budget_guard.medium_limit
    /\ budget_guard.medium_limit < budget_guard.hard_limit

\* C9 as stated: on a day with total_spent >= hard, check(estimated_cost,
\* tier) rejects for every estimated_cost >= 0 and every tier, and
\* get_status().level is "hard".
C9_AsStated ==
    TodaySpent >= budget_guard.hard_limit =>
        /\ \A est \in ClaimEstimates, tier \in ClaimTiers :
              ~BudgetCheck(budget_guard, today, est, tier).allowed
        /\ GetStatus(budget_guard, today).level = "hard"

\* C9 amended: on a day with total_spent >= hard (limits soft < medium <
\* hard), get_status().level is "hard" and check(estimated_cost, tier)
\* rejects for every estimated_cost >= 0 and every tier, except that a request
\* of a tier other than premium whose projected cost equals the hard limit
\* exactly (total_spent = hard, estimated_cost = 0) is allowed with level soft.
C9_HardDayRejects ==
    (LimitsOrdered /\ TodaySpent >= budget_guard.hard_limit) =>
        /\ \A est \in ClaimEstimates, tier \in ClaimTiers :
              LET r == BudgetCheck(budget_guard, today, est, tier)
              IN  IF tier # "premium" /\ TodaySpent + est = budget_guard.hard_limit
                  THEN r.allowed /\ r.level = "soft"
                  ELSE ~r.allowed
        /\ GetStatus(budget_guard, today).level = "hard"

\* C9 witness: a check made on a day whose total is beyond the hard limit was
\* rejected with level hard.
C9_Witness ==
    /\ last.op = "check"
    /\ TodaySpent > budget_guard.hard_limit
    /\ last.tier = "cheap"
    /\ ~last.result.allowed
    /\ last.result.level = "hard"

\* C10 as stated: projected = hard is rejected; projected = soft is allowed
\* with level normal.
C10_AsStated ==
    \A est \in ClaimEstimates, tier \in ClaimTiers :
        LET r == BudgetCheck(budget_guard, today, est, tier)
        IN  /\ (TodaySpent + est = budget_guard.hard_limit => ~r.allowed)
            /\ (TodaySpent + est = budget_guard.soft_limit =>
                    r.allowed /\ r.level = "normal")

\* C10 amended: with limits soft < medium < hard, when projected equals the
\* hard limit the hard rule does not fire (the comparison is strict): a premium
\* request is rejected with level medium and suggest_tier cheap, a request of
\* any other tier is allowed with level soft; when projected equals the soft
\* limit the request is allowed with level normal.
C10_AtLimit ==
    LimitsOrdered =>
    \A est \in ClaimEstimates, tier \in ClaimTiers :
        LET r == BudgetCheck(budget_guard, today, est, tier)
        IN  /\ (TodaySpent + est = budget_guard.hard_limit =>
                    IF tier = "premium"
                    THEN ~r.allowed /\ r.level = "medium" /\ r.suggest_tier = "cheap"
                    ELSE r.allowed /\ r.level = "soft")
            /\ (TodaySpent + est = budget_guard.soft_limit =>
                    r.allowed /\ r.level = "normal")

\* C10 witness: a cheap check made with projected = hard was allowed with
\* level soft.
C10_Witness ==
    /\ last.op = "check"
    /\ last.tier = "cheap"
    /\ TodaySpent + last.estimated_cost = budget_guard.hard_limit
    /\ last.result.allowed
    /\ last.result.level = "soft"

\* C11: check(estimated_cost, tier), with projected = today's spend +
\* estimated_cost, rejects with level hard if projected > hard; else rejects
\* with level medium and suggest_tier cheap if projected > medium and the tier
\* is premium; else allows with level soft if projected > soft; else allows
\* with level normal.  A call of check changes no row of the spending table
\* that existed, adds no transaction and leaves today's spend as it was.
C11_CheckDecision ==
    /\ [](\A est \in ClaimEstimates, tier \in ClaimTiers :
            LET r == BudgetCheck(budget_guard, today, est, tier)
                projected == TodaySpent + est
            IN  IF projected > budget_guard.hard_limit
                THEN ~r.allowed /\ r.level = "hard"
                ELSE IF projected > budget_guard.medium_limit /\ tier = "premium"
                THEN ~r.allowed /\ r.level = "medium" /\ r.suggest_tier = "cheap"
                ELSE IF projected > budget_guard.soft_limit
                THEN r.allowed /\ r.level = "soft"
                ELSE r.allowed /\ r.level = "normal")
    /\ [][(/\ last'.op = "check"
            /\ today' = today
            /\ budget_guard'.transactions = budget_guard.transactions)
           => /\ GetDailySpent(budget_guard', today) = GetDailySpent(budget_guard, today)
              /\ \A d \in DOMAIN budget_guard.spending :
                    budget_guard'.spending[d] = budget_guard.spending[d]]_vars

\* C11 witness: a premium check with projected between medium and hard was
\* rejected with level medium and the hint to use the cheap tier, and a row
\* of spending is there to be changed.
C11_Witness ==
    /\ last.op = "check"
    /\ last.tier = "premium"
    /\ TodaySpent > budget_guard.medium_limit
    /\ TodaySpent + last.estimated_cost <= budget_guard.hard_limit
    /\ ~last.result.allowed
    /\ last.result.level = "medium"
    /\ last.result.suggest_tier = "cheap"

\* The transactions of a day, their number and the sum of their costs.
TransactionsOf(day) ==
    SelectSeq(budget_guard.transactions, LAMBDA tx : tx.date = day)

SpentOn(day) ==
    SumSeq([i \in DOMAIN TransactionsOf(day) |-> TransactionsOf(day)[i].cost])

\* The row of a day as a read finds it after _ensure_today_record.
RowOf(day) == EnsureTodayRecord(budget_guard, day).spending[day]

\* C38: after every call, today's total_cost is the sum of the costs of the
\* record_spend calls completed today and is cheap_cost + premium_cost, and
\* request_count is the number of today's transaction rows.
C38_LedgerConsistent ==
    /\ RowOf(today).total_cost = SpentOn(today)
    /\ RowOf(today).total_cost = RowOf(today).cheap_cost + RowOf(today).premium_cost
    /\ RowOf(today).request_count = Len(TransactionsOf(today))

(***************************************************************************)
(* Claims about the kill switch (SpecKS).                                  *)
(***************************************************************************)
\* C2: whenever no manual activation is in effect (no enable() since the last
\* disable()) and the budget guard reports level hard, check() returns a
\* blocked gate with mode kill, also after an error-rate throttle.
C2_HardBudgetKills ==
    (~hist.manual /\ GetStatus(budget_guard, today).level = "hard") =>
        LET gate == KillSwitchCheck(kill_switch, budget_guard, today, now).gate
        IN  gate.blocked /\ gate.mode = "kill"

\* C12: while the kill switch is in kill mode on account of the budget hard
\* limit, check() blocks with a retry_after within one second of the number
\* of seconds until midnight.
C12_BudgetKillRetryAfter ==
    (kill_switch.state.mode = "kill" /\ kill_switch.state.activated_by = "budget") =>
        LET gate == KillSwitchCheck(kill_switch, budget_guard, today, now).gate
        IN  /\ gate.blocked
            /\ gate.retry_after - SecondsUntilMidnight(now) <= 1
            /\ SecondsUntilMidnight(now) - gate.retry_after <= 1

\* C39: once the budget guard no longer reports hard (after the daily reset
\* at midnight), a kill that the budget hard limit activated is lifted by
\* itself: check() returns a gate that is not blocked.
C39_BudgetKillLifts ==
    ( /\ kill_switch.state.mode = "kill"
      /\ kill_switch.state.activated_by = "budget"
      /\ GetStatus(budget_guard, today).level # "hard" ) =>
        ~KillSwitchCheck(kill_switch, budget_guard, today, now).gate.blocked

(***************************************************************************)
(* Claims about the rate limiter (SpecRL).                                 *)
(***************************************************************************)
\* The record(_, T) calls made less than one window ago.
RecordsInWindow(tier) ==
    Cardinality({ i \in DOMAIN hist.rl_log :
                    /\ BucketOf(hist.rl_log[i].tier) = BucketOf(tier)
                    /\ now - hist.rl_log[i].t < WindowSeconds })

\* C8: for every tier T with request limit L_r, once L_r record(_, T) calls
\* lie less than one window back, every check(_, T) is rejected (until the
\* oldest of them ages out of the window).
C8_FullWindowRejects ==
    \A tier \in RLTiers, est \in {0, 1, 3} :
        RecordsInWindow(tier) >= RpmLimit(rate_limiter, BucketOf(tier)) =>
            ~RateCheck(rate_limiter, est, tier, now).allowed

\* C8 witness: a check on the cheap tier was rejected for the request count
\* after as many cheap records as the cheap tier's request limit, while a
\* record older than the window is no longer counted.
C8_Witness ==
    /\ last.op = "rl_check"
    /\ last.tier = "cheap"
    /\ ~last.allowed
    /\ last.message = "Request limit exceeded"
    /\ RpmLimit(rate_limiter, "cheap") > 0
    /\ RecordsInWindow("cheap") = RpmLimit(rate_limiter, "cheap")

\* The entries with timestamp t0 that the record calls of the log appended
\* to the bucket: record appends to the bucket of the tier and to global.
Appended(bucket_name, t0) ==
    SumSeq([i \in DOMAIN hist.rl_log |->
              IF hist.rl_log[i].t # t0 THEN 0
              ELSE (IF BucketOf(hist.rl_log[i].tier) = bucket_name THEN 1 ELSE 0)
                   + (IF bucket_name = "global" THEN 1 ELSE 0)])

\* The entries with timestamp t0 in a deque.
EntriesAt(entries, t0) ==
    Cardinality({ i \in DOMAIN entries : entries[i][1] = t0 })

\* The times of the record calls.
RecordTimes == { hist.rl_log[i].t : i \in DOMAIN hist.rl_log }

\* The buckets a check on the tier counts.
CheckedBuckets(tier) == {BucketOf(tier), "global"}

\* C31: in the buckets a check reads (after its cleanup), every entry
\* recorded at t0 is still counted, among requests and among tokens, when the
\* check is made before t0 + window, and none is counted when it is made
\* after t0 + window.
C31_WindowBoundary ==
    \A tier \in RLTiers :
        LET after == RateCheck(rate_limiter, 1, tier, now).rl
        IN  \A b \in CheckedBuckets(tier), t0 \in RecordTimes :
               /\ now < t0 + WindowSeconds
                  => /\ EntriesAt(after.buckets[b].requests, t0) = Appended(b, t0)
                     /\ EntriesAt(after.buckets[b].tokens, t0) = Appended(b, t0)
               /\ now > t0 + WindowSeconds
                  => /\ EntriesAt(after.buckets[b].requests, t0) = 0
                     /\ EntriesAt(after.buckets[b].tokens, t0) = 0

\* C31 witness: a check on the cheap tier, made more than one window after a
\* cheap record at time 0 and less than one window after a later one, has
\* left the later entry alone in the bucket.
C31_Witness ==
    /\ last.op = "rl_check"
    /\ last.tier = "cheap"
    /\ now > WindowSeconds
    /\ \E i, j \in DOMAIN hist.rl_log :
          /\ hist.rl_log[i].t = 0 /\ hist.rl_log[i].tier = "cheap"
          /\ hist.rl_log[j].t > 0 /\ hist.rl_log[j].tier = "cheap"
    /\ Len(rate_limiter.buckets["cheap"].requests) = 1
    /\ rate_limiter.buckets["cheap"].requests[1][1] > 0

\* C32: check rejects when the request count of the tier's bucket has reached
\* the tier's request limit, when the bucket's token sum plus the estimate
\* reaches the tier's token limit, or when the global bucket reaches the base
\* limits in the same way.
C32_RejectAtLimit ==
    \A tier \in RLTiers, est \in 0 .. TokensPerMinute :
        LET checked == RateCheck(rate_limiter, est, tier, now)
            bucket == checked.rl.buckets[BucketOf(tier)]
            global_bucket == checked.rl.buckets["global"]
        IN  (\/ RequestCount(bucket) >= RpmLimit(rate_limiter, BucketOf(tier))
             \/ TokenCount(bucket) + est >= TpmLimit(rate_limiter, BucketOf(tier))
             \/ RequestCount(global_bucket) >= rate_limiter.requests_per_minute
             \/ TokenCount(global_bucket) + est >= rate_limiter.tokens_per_minute)
            => ~checked.allowed

\* C34: a record(tokens, tier) call adds one request entry and tokens tokens
\* to the bucket of the tier and one request entry and tokens tokens to the
\* global bucket, for the tiers global, cheap and premium.
C34_RecordAddsOnce ==
    [][(/\ Len(hist'.rl_log) = Len(hist.rl_log) + 1
        /\ last'.tier \in BucketNames)
       => \A b \in {last'.tier, "global"} :
             /\ RequestCount(rate_limiter'.buckets[b])
                  = RequestCount(rate_limiter.buckets[b]) + 1
             /\ TokenCount(rate_limiter'.buckets[b])
                  = TokenCount(rate_limiter.buckets[b]) + last'.tokens]_vars

(***************************************************************************)
(* The gateway (src/main.py): requests, and the pure parts of the handler. *)
(* The components are taken as constructed by lifespan; the metrics calls  *)
(* change no state the handler reads and are left out.                     *)
(***************************************************************************)
NumRequests == 2
Requests == 1 .. NumRequests

GatewayRPM == 60                  \* Settings.RATE_LIMIT_RPM, the default
GatewayTPM == 100000              \* Settings.RATE_LIMIT_TPM, the default

\* Message contents, with len() and the verdicts of the policy gate and of
\* the classifier's heuristics on each of them.
FixText == "fix"
MathText == "Was ist 2 + 2?"
LruText == "Implementiere eine effiziente LRU-Cache Klasse in Python mit Thread-Safety und automatischer TTL-Verwaltung."
RmText == "Execute rm -rf / on my server"
OkText == "ok"
LongText == "a conversation of 400000 characters"   \* stands for its text
AnswerText == "answer"

ContentLen(c) ==
    CASE c = FixText -> 3
      [] c = MathText -> 14
      [] c = LruText -> 108
      [] c = RmText -> 29
      [] c = OkText -> 2
      [] c = LongText -> 400000
      [] OTHER -> 0

Message(role, content) == [role |-> role, content |-> content]

ChatRequest(messages, force_tier) ==
    [messages |-> messages, context |-> <<>>, force_tier |-> force_tier]

\* The request bodies the clients send.
ChatRequests ==
    << ChatRequest(<<Message("user", FixText)>>, None),
       ChatRequest(<<Message("user", MathText)>>, None),
       ChatRequest(<<Message("user", LruText)>>, None),
       ChatRequest(<<Message("user", RmText)>>, None),
       ChatRequest(<<Message("user", RmText), Message("assistant", OkText)>>, None),
       ChatRequest(<<Message("user", MathText)>>, "premium"),
       ChatRequest(<<Message("user", LruText)>>, "cheap"),
       ChatRequest(<<Message("user", LongText)>>, None),
       ChatRequest(<<>>, None) >>

\* Python truthiness of an Optional[str].
Truthy(v) == v # None /\ v # ""

\* user_message = request.messages[-1].content if request.messages else ""
UserMessage(messages) ==
    IF messages = <<>> THEN "" ELSE messages[Len(messages)].content

\* PolicyGate.check: the category of the first matching pattern, or None.
\* Of the contents above only RmText matches a pattern, the destructive
\* pattern \brm\s+(-[rf]+\s+)*[/~]; no pattern of any category matches the
\* others (LongText stands for a text without a match).
PolicyCheck(query) ==
    IF query = RmText THEN "destructive_command" ELSE None

\* estimated_tokens = sum(len(m.content) for m in request.messages) // 4 + 100
EstimatedTokens(messages) ==
    (SumSeq([i \in 1 .. Len(messages) |-> ContentLen(messages[i].content)]) \div 4) + 100

\* ExactCache.compute_key: one part per message (the JSON object of its
\* fields), one more for a truthy context; SHA-256 of the joined parts is
\* taken as injective, so the key is the sequence of parts.  An Optional[dict]
\* is the empty sequence (None) or the sequence of one record (the dict).
ComputeKey(messages, context) ==
    LET key_parts == [i \in 1 .. Len(messages) |->
                         [content |-> messages[i].content, role |-> messages[i].role]]
    IN  IF context # <<>> THEN Append(key_parts, context[1]) ELSE key_parts

DefaultTTL == 86400
MaxEntries == 10000
CleanupBuffer == 100

\* get that serves a row up to and including the second it expires.
CacheGetInclusive(cache, cache_key, t) ==
    IF cache_key \in DOMAIN cache /\ cache[cache_key].expires_at >= t
    THEN [ response |-> cache[cache_key].response,
           cache |-> [cache EXCEPT ![cache_key].hit_count = @ + 1,
                                   ![cache_key].last_hit_at = <<t>>] ]
    ELSE [ response |-> None, cache |-> cache ]

\* ExactCache.get at time t: the response returned and the table afterwards.
CacheGet(cache, cache_key, t) ==
    IF cache_key \in DOMAIN cache /\ cache[cache_key].expires_at > t
    THEN [ response |-> cache[cache_key].response,
           cache |-> [cache EXCEPT ![cache_key].hit_count = @ + 1,
                                   ![cache_key].last_hit_at = <<t>>] ]
    ELSE [ response |-> None, cache |-> cache ]

\* Restriction of the table to the keys in keep.
CacheRows(cache, keep) == [k \in keep |-> cache[k]]

\* ORDER BY last_hit_at ASC NULLS FIRST, created_at ASC: row a sorts before b.
\* last_hit_at is <<>> (NULL) or <<t>>.
EvictBefore(a, b) ==
    \/ a.last_hit_at = <<>> /\ b.last_hit_at # <<>>
    \/ a.last_hit_at = <<>> /\ b.last_hit_at = <<>> /\ a.created_at < b.created_at
    \/ a.last_hit_at # <<>> /\ b.last_hit_at # <<>> /\ a.last_hit_at[1] < b.last_hit_at[1]
    \/ a.last_hit_at # <<>> /\ b.last_hit_at # <<>> /\ a.last_hit_at = b.last_hit_at
         /\ a.created_at < b.created_at

\* ExactCache.get_by_idempotency_key at time t: the responses fetchone can
\* return (the column is not unique), None without a matching row.
GetByIdempotencyKey(cache, idempotency_key, t) ==
    LET rows == {k \in DOMAIN cache : /\ cache[k].idempotency_key = idempotency_key
                                       /\ cache[k].expires_at > t}
    IN  IF rows = {} THEN {None} ELSE {cache[k].response : k \in rows}

\* ExactCache._maybe_cleanup at time t of a cache constructed with
\* max_entries: the tables it can leave (rows that tie in the ORDER BY are
\* removed in an order SQLite chooses).
MaybeCleanupWith(cache, t, max_entries) ==
    LET live == {k \in DOMAIN cache : ~(cache[k].expires_at < t)}
        count == Cardinality(live)
        to_remove == count - max_entries + CleanupBuffer
    IN  IF count > max_entries
        THEN { CacheRows(cache, live \ gone) :
                 gone \in { g \in SUBSET live :
                              /\ Cardinality(g) = IF to_remove < count THEN to_remove ELSE count
                              /\ \A a \in g, b \in live \ g :
                                    ~EvictBefore(cache[b], cache[a]) } }
        ELSE { CacheRows(cache, live) }

\* _maybe_cleanup of the cache the gateway constructs (max_entries default).
MaybeCleanup(cache, t) == MaybeCleanupWith(cache, t, MaxEntries)

\* ExactCache.set at time t of a cache constructed with max_entries: INSERT OR
\* REPLACE, then _maybe_cleanup.  expires_at = now + (ttl or default_ttl): a
\* ttl of None and a ttl of 0 both give the default, and are both passed as 0.
CacheSetWith(cache, cache_key, response, usage, ttl, idempotency_key, t, max_entries) ==
    LET row == [ response |-> response, usage |-> usage,
                 idempotency_key |-> idempotency_key, created_at |-> t,
                 expires_at |-> t + (IF ttl = 0 THEN DefaultTTL ELSE ttl),
                 hit_count |-> 0, last_hit_at |-> <<>> ]
        put == [k \in DOMAIN cache \cup {cache_key} |->
                   IF k = cache_key THEN row ELSE cache[k]]
    IN  MaybeCleanupWith(put, t, max_entries)

\* exact_cache.set(cache_key, response, usage) as the gateway calls it.
CacheSet(cache, cache_key, response, usage, t) ==
    CacheSetWith(cache, cache_key, response, usage, 0, None, t, MaxEntries)


IntentTiers == {"CACHE_ONLY", "LOCAL", "CHEAP", "PREMIUM"}

\* GroqClassifier._quick_classify on the contents above: None sends the query
\* to the remote classifier.
QuickClassify(query) ==
    CASE query = FixText -> "CACHE_ONLY"     \* len < 15 and contains "fix"
      [] query = LruText -> "PREMIUM"        \* contains "implementier"
      [] query = MathText -> "CHEAP"         \* contains "was ist"
      [] OTHER -> None

\* GroqClassifier.classify: the tiers it can return.  The remote reply parses
\* to any tier; a timeout, an error or an unknown tier string gives CHEAP.
ClassifyTiers(query) ==
    IF QuickClassify(query) # None THEN {QuickClassify(query)} ELSE IntentTiers

\* The rows of the BM25 index: index_query has no caller in the gateway.
Bm25Index == {}

\* bm25_hit and bm25_hit[0]["score"] > 0.9
Bm25Hit(query) == \E row \in Bm25Index : row.query = query /\ row.score > 9

\* force_tier.upper()
Upper(tier) ==
    CASE tier = "premium" -> "PREMIUM"
      [] tier = "cheap" -> "CHEAP"
      [] tier = "local" -> "LOCAL"
      [] OTHER -> tier

\* The provider chat_completions calls for a routed tier; None where the
\* branch raises 503 because the provider is not configured.
SelectBackend(tier, prov) ==
    IF tier = "LOCAL" /\ prov.local THEN "local"
    ELSE IF tier = "CHEAP"
    THEN IF prov.local THEN "local" ELSE IF prov.groq THEN "groq" ELSE None
    ELSE IF prov.anthropic THEN "anthropic" ELSE None

LocalModel == "llama3.2:latest"
GroqModel == "llama-3.1-8b-instant"
ClaudeModel == "claude-sonnet-4-20250514"

\* actual_model of the branch taken.
ActualModel(tier, backend) ==
    IF tier = "LOCAL" /\ backend = "local" THEN "local/llama3.2:latest"
    ELSE IF backend = "local" THEN LocalModel
    ELSE IF backend = "groq" THEN GroqModel
    ELSE ClaudeModel

\* "claude" in model.lower()
IsClaude(model) == model = ClaudeModel

\* calculate_cost, in units of 1/UnitsPerDollar USD: 3.00, 0.30 and 15.00 USD
\* per million tokens for Claude, 0.05 USD per million for the others.
CalculateCost(usage, model) ==
    IF IsClaude(model)
    THEN (usage.prompt_tokens - usage.cache_read_input_tokens) * 60
           + usage.cache_read_input_tokens * 6
           + usage.completion_tokens * 300
    ELSE (usage.prompt_tokens + usage.completion_tokens) * 1

\* actual_cost of the branch taken.
ActualCost(backend, usage, model) ==
    IF backend = "local" THEN 0 ELSE CalculateCost(usage, model)

\* What a provider's generate returns for usage.
Usages ==
    { [prompt_tokens |-> 1000, completion_tokens |-> 500, cache_read_input_tokens |-> 0] }

(***************************************************************************)
(* Specification Spec: requests through chat_completions.  A request's pc  *)
(* names the stage it runs next.  The handler is a coroutine: it gives up  *)
(* the event loop only at its awaits (exact_cache.get, tier_router.route,  *)
(* provider.generate, exact_cache.set), so no other handler runs between   *)
(* the policy gate, the kill switch and the rate limiter, nor between the  *)
(* return of generate and record_spend.                                    *)
(***************************************************************************)
StageOrder ==
    << "policy_gate", "kill_switch", "rate_limiter", "exact_cache_get", "route",
       "dispatch", "record_spend", "exact_cache_set" >>

SyncPcs == {"policy_gate", "kill_switch", "rate_limiter", "record_spend"}

ReqIdle ==
    [ pc |-> "idle", input |-> 0, stages |-> <<>>, status |-> 0, error |-> None,
      category |-> None, kill_mode |-> None, tier |-> None, backend |-> None,
      model |-> None, usage |-> <<>>, cost |-> 0, spent |-> FALSE,
      content |-> None, source |-> None ]

\* Persisted spending of today found at startup.
PriorSpends == {0, MediumLimit, HardLimit}

ProviderConfigs ==
    { [local |-> TRUE, groq |-> TRUE, anthropic |-> TRUE],
      [local |-> FALSE, groq |-> TRUE, anthropic |-> TRUE],
      [local |-> FALSE, groq |-> FALSE, anthropic |-> FALSE] }

Init ==
    /\ ComponentsInit
    /\ now = 0
    /\ today = 0
    /\ \E prior \in PriorSpends :
          budget_guard = IF prior = 0 THEN BudgetGuardInit
                         ELSE RecordSpend(BudgetGuardInit, 0, prior, "premium", None)
    /\ kill_switch = KillSwitchInit(0)
    /\ rate_limiter = RateLimiterInit(GatewayRPM, GatewayTPM)
    /\ exact_cache = <<>>
    /\ providers \in ProviderConfigs
    /\ reqs = [r \in Requests |-> ReqIdle]
    /\ last = NoCall
    /\ hist = NoHistory

\* The handler with the cache write moved before the budget record.
NextStageCacheFirst(stage) ==
    CASE stage = "policy_gate" -> "kill_switch"
      [] stage = "kill_switch" -> "rate_limiter"
      [] stage = "rate_limiter" -> "exact_cache_get"
      [] stage = "exact_cache_get" -> "route"
      [] stage = "route" -> "dispatch"
      [] stage = "dispatch" -> "exact_cache_set"
      [] stage = "exact_cache_set" -> "record_spend"
      [] stage = "record_spend" -> "done"

\* The statement that follows a stage that did not reject.
NextStage(stage) ==
    CASE stage = "policy_gate" -> "kill_switch"
      [] stage = "kill_switch" -> "rate_limiter"
      [] stage = "rate_limiter" -> "exact_cache_get"
      [] stage = "exact_cache_get" -> "route"
      [] stage = "route" -> "dispatch"
      [] stage = "dispatch" -> "record_spend"
      [] stage = "record_spend" -> "exact_cache_set"
      [] stage = "exact_cache_set" -> "done"

\* raise HTTPException(status, ...) in a stage: the handler ends.
Reject(req, stage, status, error) ==
    [req EXCEPT !.pc = "done", !.stages = Append(@, stage),
                !.status = status, !.error = error]

\* The stage completed and the handler goes on.
Pass(req, stage) ==
    [req EXCEPT !.pc = NextStage(stage), !.stages = Append(@, stage)]

\* No other handler is between two awaits.
MayRun(r) == \A q \in Requests \ {r} : reqs[q].pc \notin SyncPcs

RequestOf(r) == ChatRequests[reqs[r].input]


\* A client sends a request: chat_completions starts (main.py:353-358).
\* Requests are numbered in the order they arrive.
Arrive(r) ==
    /\ reqs[r].pc = "idle"
    /\ IF r = 1 THEN TRUE ELSE reqs[r - 1].pc # "idle"
    /\ MayRun(r)
    /\ \E i \in DOMAIN ChatRequests :
          reqs' = [reqs EXCEPT ![r] = [ReqIdle EXCEPT !.pc = "policy_gate", !.input = i]]
    /\ UNCHANGED <<components, now, today, budget_guard, kill_switch, rate_limiter, exact_cache,
                   providers, last, hist>>

\* 1. Policy Gate, with a gate that lets a violation through.
PolicyGateStageOpen(r) ==
    /\ reqs[r].pc = "policy_gate"
    /\ MayRun(r)
    /\ reqs' = [reqs EXCEPT ![r] = Pass(@, "policy_gate")]
    /\ UNCHANGED <<components, now, today, budget_guard, kill_switch, rate_limiter, exact_cache,
                   providers, last, hist>>

\* 1. Policy Gate (main.py:361-365).
PolicyGateStage(r) ==
    /\ reqs[r].pc = "policy_gate"
    /\ MayRun(r)
    /\ LET user_message == UserMessage(RequestOf(r).messages)
           violation == PolicyCheck(user_message)
       IN  reqs' = [reqs EXCEPT ![r] =
                      IF violation # None
                      THEN [Reject(@, "policy_gate", 403, "policy_violation")
                              EXCEPT !.category = violation]
                      ELSE Pass(@, "policy_gate")]
    /\ UNCHANGED <<components, now, today, budget_guard, kill_switch, rate_limiter, exact_cache,
                   providers, last, hist>>

\* 2. Kill Switch (main.py:367-371).
KillSwitchStage(r) ==
    /\ reqs[r].pc = "kill_switch"
    /\ MayRun(r)
    /\ LET kill_status == KillSwitchCheck(kill_switch, budget_guard, today, now)
       IN  /\ kill_switch' = kill_status.ks
           /\ budget_guard' = kill_status.bg
           /\ reqs' = [reqs EXCEPT ![r] =
                         [(IF kill_status.gate.blocked
                           THEN Reject(@, "kill_switch", 503, "service_unavailable")
                           ELSE Pass(@, "kill_switch"))
                            EXCEPT !.kill_mode = kill_status.gate.mode]]
    /\ UNCHANGED <<components, now, today, rate_limiter, exact_cache, providers, last, hist>>

\* 3. Rate Limiting (main.py:373-378).
RateLimitStage(r) ==
    /\ reqs[r].pc = "rate_limiter"
    /\ MayRun(r)
    /\ LET estimated_tokens == EstimatedTokens(RequestOf(r).messages)
           rate == RateCheck(rate_limiter, estimated_tokens, "global", now)
       IN  /\ rate_limiter' = rate.rl
           /\ reqs' = [reqs EXCEPT ![r] =
                         IF ~rate.allowed
                         THEN Reject(@, "rate_limiter", 429, "rate_limit")
                         ELSE Pass(@, "rate_limiter")]
    /\ UNCHANGED <<components, now, today, budget_guard, kill_switch, exact_cache, providers,
                   last, hist>>

\* 4. Exact Cache (main.py:380-385).
ExactCacheGetStage(r) ==
    /\ reqs[r].pc = "exact_cache_get"
    /\ MayRun(r)
    /\ LET cache_key == ComputeKey(RequestOf(r).messages, RequestOf(r).context)
           got == CacheGet(exact_cache, cache_key, now)
           exact_hit == got.response
       IN  /\ exact_cache' = got.cache
           /\ reqs' = [reqs EXCEPT ![r] =
                         IF Truthy(exact_hit)
                         THEN [@ EXCEPT !.pc = "done",
                                        !.stages = Append(@, "exact_cache_get"),
                                        !.status = 200, !.content = exact_hit,
                                        !.source = "exact_cache"]
                         ELSE Pass(@, "exact_cache_get")]
    /\ UNCHANGED <<components, now, today, budget_guard, kill_switch, rate_limiter, providers,
                   last, hist>>

\* 5. Route request (main.py:387-393, TierRouter.route).  Without a Groq key
\* the classifier is None and classify raises: the handler answers 500.
RouteStage(r) ==
    /\ reqs[r].pc = "route"
    /\ MayRun(r)
    /\ LET query == UserMessage(RequestOf(r).messages)
           force_tier == RequestOf(r).force_tier
           tiers == IF Truthy(force_tier) THEN {Upper(force_tier)}
                    ELSE IF Bm25Hit(query) THEN {"CACHE_CANDIDATE"}
                    ELSE IF ~providers.groq THEN {None}
                    ELSE ClassifyTiers(query)
       IN  \E tier \in tiers :
              reqs' = [reqs EXCEPT ![r] =
                         IF tier = None
                         THEN Reject(@, "route", 500, "internal_error")
                         ELSE [Pass(@, "route") EXCEPT !.tier = tier]]
    /\ UNCHANGED <<components, now, today, budget_guard, kill_switch, rate_limiter, exact_cache,
                   providers, last, hist>>

\* 6. Generate based on tier (main.py:395-433): the provider is called and
\* returns a response whose content is one of contents, or raises (the
\* handler answers 500).
DispatchWith(r, contents) ==
    /\ reqs[r].pc = "dispatch"
    /\ MayRun(r)
    /\ LET tier == reqs[r].tier
           backend == SelectBackend(tier, providers)
           actual_model == ActualModel(tier, backend)
       IN  IF backend = None
           THEN reqs' = [reqs EXCEPT ![r] = Reject(@, "dispatch", 503, "no_provider")]
           ELSE \/ \E usage \in Usages, content \in contents :
                     reqs' = [reqs EXCEPT ![r] =
                                [Pass(@, "dispatch") EXCEPT
                                    !.backend = backend, !.model = actual_model,
                                    !.usage = usage, !.content = content,
                                    !.cost = ActualCost(backend, usage, actual_model)]]
                \/ reqs' = [reqs EXCEPT ![r] =
                              [Reject(@, "dispatch", 500, "internal_error")
                                 EXCEPT !.backend = backend]]
    /\ UNCHANGED <<components, now, today, budget_guard, kill_switch, rate_limiter, exact_cache,
                   providers, last, hist>>

\* 6. Generate based on tier, the provider answering with a text.
DispatchStage(r) ==
    /\ reqs[r].pc = "dispatch"
    /\ DispatchWith(r, {AnswerText})

\* budget_guard.record_spend(actual_cost) (main.py:436): tier is the default.
RecordSpendStage(r) ==
    /\ reqs[r].pc = "record_spend"
    /\ MayRun(r)
    /\ budget_guard' = RecordSpend(budget_guard, today, reqs[r].cost, "premium", None)
    /\ reqs' = [reqs EXCEPT ![r] = [Pass(@, "record_spend") EXCEPT !.spent = TRUE]]
    /\ UNCHANGED <<components, now, today, kill_switch, rate_limiter, exact_cache, providers,
                   last, hist>>

\* exact_cache.set and the response (main.py:440-449).
ExactCacheSetStage(r) ==
    /\ reqs[r].pc = "exact_cache_set"
    /\ MayRun(r)
    /\ LET cache_key == ComputeKey(RequestOf(r).messages, RequestOf(r).context)
       IN  exact_cache' \in CacheSet(exact_cache, cache_key, reqs[r].content,
                                     reqs[r].usage, now)
    /\ reqs' = [reqs EXCEPT ![r] =
                  [Pass(@, "exact_cache_set") EXCEPT !.status = 200,
                                                     !.source = reqs[r].model]]
    /\ UNCHANGED <<components, now, today, budget_guard, kill_switch, rate_limiter, providers,
                   last, hist>>

Next ==
    \E r \in Requests :
          \/ Arrive(r)
          \/ PolicyGateStage(r)
          \/ KillSwitchStage(r)
          \/ RateLimitStage(r)
          \/ ExactCacheGetStage(r)
          \/ RouteStage(r)
          \/ DispatchStage(r)
          \/ RecordSpendStage(r)
          \/ ExactCacheSetStage(r)

Spec == Init /\ [][Next]_vars


(***************************************************************************)
(* Claims on the gateway (specification Spec).                             *)
(***************************************************************************)
IsPrefix(s, t) == Len(s) <= Len(t) /\ \A i \in 1 .. Len(s) : s[i] = t[i]

Started(r) == reqs[r].pc # "idle"

RejectStatuses == {403, 429, 500, 503}

\* C1: the stages a request has run are an initial part of policy gate,
\* kill switch, rate limiter, exact-cache lookup, routing, dispatch,
\* record_spend, exact-cache set, in that order; the stage it runs next is
\* the one after them and none of them rejected; a stage that rejected is
\* the last one run; the spend is recorded exactly when record_spend has run,
\* which is before exact-cache set.
C1_StagesInOrder ==
    \A r \in Requests :
        /\ IsPrefix(reqs[r].stages, StageOrder)
        /\ reqs[r].pc \notin {"idle", "done"} =>
              /\ reqs[r].status = 0
              /\ reqs[r].pc = StageOrder[Len(reqs[r].stages) + 1]
        /\ reqs[r].status \in RejectStatuses => reqs[r].pc = "done"
        /\ reqs[r].spent <=> (\E i \in 1 .. Len(reqs[r].stages) :
                                 reqs[r].stages[i] = "record_spend")
        /\ (\E i \in 1 .. Len(reqs[r].stages) : reqs[r].stages[i] = "exact_cache_set")
              => reqs[r].spent

\* A request has run all eight stages and was answered 200.
C1_Witness ==
    \E r \in Requests :
        /\ reqs[r].stages = StageOrder
        /\ reqs[r].status = 200
        /\ reqs[r].spent

\* C3: a request for which kill_switch.check returned mode degrade is never
\* dispatched to the PREMIUM backend.
C3_DegradeNeverPremium ==
    \A r \in Requests :
        reqs[r].kill_mode = "degrade" => reqs[r].backend # "anthropic"

\* C4: a request the classifier assigned to CACHE_ONLY calls no backend and
\* records no spend.
C4_CacheOnlyNoBackend ==
    \A r \in Requests :
        (/\ Started(r)
         /\ ~Truthy(RequestOf(r).force_tier)
         /\ reqs[r].tier = "CACHE_ONLY")
        => /\ reqs[r].backend = None
           /\ ~reqs[r].spent
           /\ reqs[r].pc \notin {"record_spend", "exact_cache_set"}

\* The request's last message violates the policy and the gate has run.
PolicyViolated(r) ==
    /\ reqs[r].pc \notin {"idle", "policy_gate"}
    /\ PolicyCheck(UserMessage(RequestOf(r).messages)) # None

\* C5: a request whose checked text violates the policy is answered 403 with
\* error policy_violation and the violation's category; it runs no later
\* stage (no kill-switch result, no routing, no backend, no spend, no
\* content), and the step that rejects it changes neither the kill switch,
\* the budget ledger, the rate limiter nor the exact cache.
C5_ViolationStops ==
    /\ [](\A r \in Requests :
            PolicyViolated(r) =>
               /\ reqs[r].pc = "done"
               /\ reqs[r].status = 403
               /\ reqs[r].error = "policy_violation"
               /\ reqs[r].category = PolicyCheck(UserMessage(RequestOf(r).messages))
               /\ reqs[r].stages = <<"policy_gate">>
               /\ reqs[r].kill_mode = None
               /\ reqs[r].tier = None
               /\ reqs[r].backend = None
               /\ ~reqs[r].spent
               /\ reqs[r].content = None)
    /\ [][\A r \in Requests :
             (reqs[r].pc = "policy_gate" /\ reqs'[r].status = 403)
             => UNCHANGED <<components, kill_switch, budget_guard, rate_limiter, exact_cache>>]_vars

\* A violating request was answered 403 after another request was served.
C5_Witness ==
    \E r, q \in Requests :
        /\ reqs[r].status = 403
        /\ reqs[r].category = "destructive_command"
        /\ reqs[q].status = 200
        /\ exact_cache # <<>>

\* The content of the last message whose role is user ("" without one).
RECURSIVE LastUserText(_)
LastUserText(messages) ==
    IF messages = <<>> THEN ""
    ELSE IF messages[Len(messages)].role = "user"
    THEN messages[Len(messages)].content
    ELSE LastUserText(SubSeq(messages, 1, Len(messages) - 1))

\* C6: a request whose last user-role message matches a blocking pattern is
\* rejected with 403 once the policy gate has run, whatever follows it.
C6_LastUserMessageGated ==
    \A r \in Requests :
        (/\ reqs[r].pc \notin {"idle", "policy_gate"}
         /\ PolicyCheck(LastUserText(RequestOf(r).messages)) # None)
        => reqs[r].status = 403

\* C7: once a request that completed an upstream backend call is answered,
\* the rate limiter holds a request recorded in the current window.
C7_UpstreamCallRecorded ==
    \A r \in Requests :
        (/\ reqs[r].pc = "done"
         /\ reqs[r].status = 200
         /\ reqs[r].backend # None)
        => RequestCount(Cleanup(rate_limiter.buckets["global"], now,
                                rate_limiter.window_seconds)) > 0


(***************************************************************************)
(* SpecEC: the exact cache alone, an ExactCache(max_entries=CacheMaxEntries)*)
(* driven through set, get and get_by_idempotency_key while time passes.   *)
(***************************************************************************)
CacheMaxEntries == 2   \* ExactCache(max_entries=...) in SpecEC
MaxHits == 1           \* hits counted on one row

\* Cache keys (they stand for SHA-256 digests).
ECKeys == {<<1>>, <<2>>, <<3>>}
\* What is stored: <<response, ttl, idempotency_key>>.
ECEntries == { <<AnswerText, 0, None>>, <<"", 30, "idem-1">>, <<AnswerText, 30, "idem-1">> }
ECIdempotencyKeys == {"idem-1"}

InitEC == InitBG

\* exact_cache.set(cache_key, response, None, ttl, idempotency_key)
ECSet ==
    /\ \E cache_key \in ECKeys, entry \in ECEntries :
        /\ exact_cache' \in CacheSetWith(exact_cache, cache_key, entry[1], <<>>, entry[2],
                                         entry[3], now, CacheMaxEntries)
        /\ last' = [op |-> "set", cache_key |-> cache_key, response |-> entry[1],
                    expires_at |-> now + (IF entry[2] = 0 THEN DefaultTTL ELSE entry[2])]
    /\ UNCHANGED <<components, now, today, budget_guard, kill_switch, rate_limiter, providers,
                   reqs, hist>>

\* exact_cache.get(cache_key)
ECGet ==
    /\ \E cache_key \in ECKeys :
        /\ cache_key \in DOMAIN exact_cache => exact_cache[cache_key].hit_count < MaxHits
        /\ exact_cache' = CacheGet(exact_cache, cache_key, now).cache
        /\ last' = [op |-> "get", cache_key |-> cache_key,
                    response |-> CacheGet(exact_cache, cache_key, now).response]
    /\ UNCHANGED <<components, now, today, budget_guard, kill_switch, rate_limiter, providers,
                   reqs, hist>>

\* exact_cache.get_by_idempotency_key(idempotency_key)
ECGetByIdempotencyKey ==
    /\ \E idempotency_key \in ECIdempotencyKeys :
       \E response \in GetByIdempotencyKey(exact_cache, idempotency_key, now) :
          last' = [op |-> "get_by_idempotency_key",
                   idempotency_key |-> idempotency_key, response |-> response]
    /\ UNCHANGED <<components, now, today, budget_guard, kill_switch, rate_limiter, exact_cache,
                   providers, reqs, hist>>

NextEC == ECSet \/ ECGet \/ ECGetByIdempotencyKey \/ Tick

SpecEC == InitEC /\ [][NextEC]_vars


(***************************************************************************)
(* Claims about the exact cache (SpecEC).                                  *)
(***************************************************************************)
\* C14: after set(key, response), as long as no other call was made and the
\* TTL has not elapsed, get(key) returns the stored response.
C14_SetThenGet ==
    (last.op = "set" /\ last.expires_at > now) =>
        CacheGet(exact_cache, last.cache_key, now).response = last.response

\* The rows of the table that have expired.
ExpiredKeys == {k \in DOMAIN exact_cache : exact_cache[k].expires_at <= now}

\* C15 as stated: for every row with expires_at <= now, get for its key
\* returns None and get_by_idempotency_key for its idempotency key returns
\* None.
C15_AsStated ==
    \A k \in ExpiredKeys :
        /\ CacheGet(exact_cache, k, now).response = None
        /\ exact_cache[k].idempotency_key # None =>
              GetByIdempotencyKey(exact_cache, exact_cache[k].idempotency_key, now) = {None}

\* C15 amended: for every row with expires_at <= now, removed by cleanup or
\* not, get for its key returns None, and get_by_idempotency_key for its
\* idempotency key returns None or the response of another row that carries
\* the same idempotency key and has not expired; None when there is no such
\* row.
C15_ExpiredNeverServed ==
    \A k \in ExpiredKeys :
        /\ CacheGet(exact_cache, k, now).response = None
        /\ CacheGet(exact_cache, k, now).cache = exact_cache
        /\ exact_cache[k].idempotency_key # None =>
              LET idem == exact_cache[k].idempotency_key
                  others == {j \in DOMAIN exact_cache \ ExpiredKeys :
                                exact_cache[j].idempotency_key = idem}
              IN  GetByIdempotencyKey(exact_cache, idem, now) =
                     IF others = {} THEN {None}
                     ELSE {exact_cache[j].response : j \in others}

\* C15 witness: a row that expired is still in the table, was never served,
\* and the get made for its key returned None.
C15_Witness ==
    /\ last.op = "get"
    /\ last.response = None
    /\ last.cache_key \in ExpiredKeys
    /\ exact_cache[last.cache_key].expires_at = now
    /\ exact_cache[last.cache_key].hit_count = 0


(***************************************************************************)
(* SpecCK: ExactCache.compute_key on dicts.  A dict is the sequence of its *)
(* <<key, value>> items in insertion order; its JSON text with             *)
(* sort_keys=True is given by the items in the order of their keys.        *)
(***************************************************************************)
\* The order of the key strings used below.
KeyRank(k) ==
    CASE k = "content" -> 1
      [] k = "file_path" -> 2
      [] k = "language" -> 3
      [] k = "role" -> 4

\* Insert an item into a sequence of items sorted by key.
RECURSIVE InsertItem(_, _)
InsertItem(item, sorted) ==
    IF sorted = <<>> THEN <<item>>
    ELSE IF KeyRank(item[1]) <= KeyRank(Head(sorted)[1]) THEN <<item>> \o sorted
    ELSE <<Head(sorted)>> \o InsertItem(item, Tail(sorted))

\* sorted(d.items())
RECURSIVE SortItems(_)
SortItems(items) ==
    IF items = <<>> THEN <<>> ELSE InsertItem(Head(items), SortItems(Tail(items)))

\* json.dumps without sort_keys: the items as inserted.
JsonDumpsInsertionOrder(items) == items

\* json.dumps(d, sort_keys=True)
JsonDumps(items) == SortItems(items)

\* compute_key(messages, context) for messages given as dicts: the parts that
\* are joined and hashed.  context None and {} are both the empty sequence.
ComputeKeyDicts(messages, context) ==
    LET key_parts == [i \in 1 .. Len(messages) |-> JsonDumps(messages[i])]
        sorted_context == SortItems(context)
    IN  IF context # <<>> THEN Append(key_parts, JsonDumps(sorted_context))
        ELSE key_parts

\* The dicts passed: every insertion order of the same items.
CKMessageDicts ==
    UNION { { << <<"role", role>>, <<"content", content>> >>,
              << <<"content", content>>, <<"role", role>> >> } :
            role \in {"user", "assistant"}, content \in {FixText, MathText} }

CKMessages ==
    { <<m>> : m \in CKMessageDicts } \cup
    { <<m, n>> : m \in CKMessageDicts,
                 n \in { << <<"role", "user">>, <<"content", OkText>> >>,
                         << <<"content", OkText>>, <<"role", "user">> >> } }

CKContexts ==
    { <<>> } \cup
    { << <<"file_path", f>> >> : f \in {"a.py", "b.py"} } \cup
    UNION { { << <<"file_path", f>>, <<"language", "python">> >>,
              << <<"language", "python">>, <<"file_path", f>> >> } : f \in {"a.py", "b.py"} } \cup
    { << <<"role", "user">>, <<"content", OkText>> >> }

InitCK == InitBG

\* exact_cache.compute_key(messages, context)
CKComputeKey ==
    /\ \E messages \in CKMessages, context \in CKContexts :
          last' = [op |-> "compute_key", messages |-> messages, context |-> context,
                   cache_key |-> ComputeKeyDicts(messages, context)]
    /\ UNCHANGED <<components, now, today, budget_guard, kill_switch, rate_limiter, exact_cache,
                   providers, reqs, hist>>

NextCK == CKComputeKey

SpecCK == InitCK /\ [][NextCK]_vars

\* Two item sequences are the same dict.
SameDict(a, b) ==
    /\ Len(a) = Len(b)
    /\ {a[i] : i \in 1 .. Len(a)} = {b[i] : i \in 1 .. Len(b)}

\* C16: the key computed for (messages, context) is the key of every call
\* with the same arguments, whatever the insertion order of the keys of the
\* context dict and of each message dict.
C16_KeyOrderIndependent ==
    last.op = "compute_key" =>
        \A messages \in CKMessages, context \in CKContexts :
            (/\ Len(messages) = Len(last.messages)
             /\ \A i \in 1 .. Len(messages) : SameDict(messages[i], last.messages[i])
             /\ SameDict(context, last.context))
            => ComputeKeyDicts(messages, context) = last.cache_key

\* C16 witness: a key was computed for a message dict and a context dict
\* whose keys were not inserted in sorted order.
C16_Witness ==
    /\ last.op = "compute_key"
    /\ Len(last.context) = 2
    /\ last.context[1][1] = "language"
    /\ last.messages[1][1][1] = "role"

\* Two calls have the same arguments: the same message dicts in the same
\* order and the same context dict.
SameRequest(messages, context, messages2, context2) ==
    /\ Len(messages) = Len(messages2)
    /\ \A i \in 1 .. Len(messages) : SameDict(messages[i], messages2[i])
    /\ SameDict(context, context2)

\* C40: two calls whose message sequences or contexts differ never get the
\* same key, also when the last message of one is, as a JSON object, the
\* context of the other.
C40_KeySeparatesRequests ==
    last.op = "compute_key" =>
        \A messages \in CKMessages, context \in CKContexts :
            ComputeKeyDicts(messages, context) = last.cache_key =>
                SameRequest(messages, context, last.messages, last.context)


(***************************************************************************)
(* SpecFaults: the gateway of Spec, with all providers configured and an   *)
(* empty ledger, in an environment that also lets a provider answer with   *)
(* an empty text, the cache database fail on a read and the budget         *)
(* database fail on a write.                                               *)
(***************************************************************************)
InitFaults ==
    /\ ComponentsInit
    /\ now = 0
    /\ today = 0
    /\ budget_guard = BudgetGuardInit
    /\ kill_switch = KillSwitchInit(0)
    /\ rate_limiter = RateLimiterInit(GatewayRPM, GatewayTPM)
    /\ exact_cache = <<>>
    /\ providers = [local |-> TRUE, groq |-> TRUE, anthropic |-> TRUE]
    /\ reqs = [r \in Requests |-> ReqIdle]
    /\ last = NoCall
    /\ hist = NoHistory

\* 6. Generate based on tier, the provider answering with an empty text.
DispatchEmptyStage(r) ==
    /\ reqs[r].pc = "dispatch"
    /\ DispatchWith(r, {""})

\* 4. Exact Cache, exact_cache.get raising (the database cannot be read):
\* the exception reaches the handler's except Exception (main.py:453-456).
ExactCacheGetFails(r) ==
    /\ reqs[r].pc = "exact_cache_get"
    /\ MayRun(r)
    /\ reqs' = [reqs EXCEPT ![r] = Reject(@, "exact_cache_get", 500, "internal_error")]
    /\ UNCHANGED <<components, now, today, budget_guard, kill_switch, rate_limiter, exact_cache,
                   providers, last, hist>>

\* BudgetGuard.record_spend raising sqlite3.Error: the ledgers it can leave.
\* The statements run on one connection, so what ran before the failing
\* statement is seen by later reads and committed with the next commit:
\* nothing, today's row, the UPDATE of today's row, or the UPDATE and the
\* INSERT (the commit failed).
RecordSpendFailures(bg, day, cost, tier, model) ==
    LET b == EnsureTodayRecord(bg, day)
        full == RecordSpend(bg, day, cost, tier, model)
    IN  { bg, b, [b EXCEPT !.spending = full.spending], full }

\* budget_guard.record_spend(actual_cost) raising (main.py:436): the exception
\* reaches the handler's except Exception (main.py:453-456).
RecordSpendFails(r) ==
    /\ reqs[r].pc = "record_spend"
    /\ MayRun(r)
    /\ budget_guard' \in RecordSpendFailures(budget_guard, today, reqs[r].cost,
                                             "premium", None)
    /\ reqs' = [reqs EXCEPT ![r] = Reject(@, "record_spend", 500, "internal_error")]
    /\ UNCHANGED <<components, now, today, kill_switch, rate_limiter, exact_cache, providers,
                   last, hist>>

NextFaults ==
    \E r \in Requests :
          \/ Arrive(r)
          \/ PolicyGateStage(r)
          \/ KillSwitchStage(r)
          \/ RateLimitStage(r)
          \/ ExactCacheGetStage(r)
          \/ ExactCacheGetFails(r)
          \/ RouteStage(r)
          \/ DispatchStage(r)
          \/ DispatchEmptyStage(r)
          \/ RecordSpendStage(r)
          \/ RecordSpendFails(r)
          \/ ExactCacheSetStage(r)

SpecFaults == InitFaults /\ [][NextFaults]_vars

\* The router sent the query of r to the remote classifier: no tier was
\* forced, the index had no hit and the heuristics gave no result.
ClassifiedRemotely(r) ==
    /\ "route" \in { reqs[r].stages[i] : i \in DOMAIN reqs[r].stages }
    /\ reqs[r].tier # None
    /\ ~Truthy(RequestOf(r).force_tier)
    /\ ~Bm25Hit(UserMessage(RequestOf(r).messages))
    /\ QuickClassify(UserMessage(RequestOf(r).messages)) = None

\* C30: a request without messages is routed to no tier but CACHE_ONLY, its
\* query is not sent to the remote classifier and no backend is called for it.
C30_EmptyConversation ==
    \A r \in Requests :
        (/\ reqs[r].pc # "idle"
         /\ RequestOf(r).messages = <<>>)
        => /\ reqs[r].tier \in {None, "CACHE_ONLY"}
           /\ ~ClassifiedRemotely(r)
           /\ reqs[r].backend = None

\* C36: the premium backend is called only for a request whose routing
\* decision has tier PREMIUM.
C36_PremiumOnlyForPremium ==
    \A r \in Requests :
        reqs[r].backend = "anthropic" => reqs[r].tier = "PREMIUM"

\* C37: the record_spend of a request served by the CHEAP tier adds its cost
\* to cheap_cost of today's row and leaves premium_cost unchanged, and that
\* of a request served by the PREMIUM tier adds its cost to premium_cost and
\* leaves cheap_cost unchanged.
C37_CostUnderServingTier ==
    [][\A r \in Requests :
          (reqs[r].pc = "record_spend" /\ reqs'[r].pc # "record_spend")
          => LET before == EnsureTodayRecord(budget_guard, today).spending[today]
                 after == budget_guard'.spending[today]
             IN  /\ reqs[r].tier = "CHEAP"
                    => /\ after.cheap_cost = before.cheap_cost + reqs[r].cost
                       /\ after.premium_cost = before.premium_cost
                 /\ reqs[r].tier = "PREMIUM"
                    => /\ after.premium_cost = before.premium_cost + reqs[r].cost
                       /\ after.cheap_cost = before.cheap_cost]_vars


(***************************************************************************)
(* Claims about the pipeline's error handling.                             *)
(***************************************************************************)
\* The handler of r ended in this stage.
EndedIn(r, stage) ==
    /\ reqs[r].pc = "done"
    /\ reqs[r].stages # <<>>
    /\ reqs[r].stages[Len(reqs[r].stages)] = stage

\* The exact cache holds an unexpired response for the request of q.
CachedFor(q) ==
    LET cache_key == ComputeKey(RequestOf(q).messages, RequestOf(q).context)
    IN  /\ cache_key \in DOMAIN exact_cache
        /\ exact_cache[cache_key].expires_at > now

\* C13: a request that looks up the exact cache while it holds an unexpired
\* response stored by an earlier identical request, whatever the content of
\* that response, is answered 200 from the exact cache by the lookup itself:
\* no backend is called and no spend is recorded (the lookup not failing).
C13_SecondServedFromCache ==
    [][\A q \in Requests :
          (/\ reqs[q].pc = "exact_cache_get"
           /\ reqs'[q].pc # "exact_cache_get"
           /\ CachedFor(q)
           /\ reqs'[q].status # 500)
          => /\ reqs'[q].pc = "done"
             /\ reqs'[q].status = 200
             /\ reqs'[q].source = "exact_cache"
             /\ reqs'[q].backend = None
             /\ ~reqs'[q].spent]_vars

\* C17: a request whose budget_guard.record_spend failed after a successful
\* upstream call is answered with status 200.
C17_RecordFailureStill200 ==
    \A r \in Requests :
        EndedIn(r, "record_spend") => reqs[r].status = 200

\* C18: no request ends at the exact cache lookup with an error: an error
\* while reading the cache is a miss and the handler goes on to routing.
C18_ReadErrorIsMiss ==
    \A r \in Requests :
        EndedIn(r, "exact_cache_get")
        => reqs[r].status = 200 /\ reqs[r].source = "exact_cache"

\* C19: a request whose chosen backend failed in generate is answered 503 and
\* has recorded no spend and written nothing to the exact cache.
C19_UpstreamFailureIs503 ==
    \A r \in Requests :
        (EndedIn(r, "dispatch") /\ reqs[r].backend # None)
        => /\ reqs[r].status = 503
           /\ ~reqs[r].spent
           /\ "exact_cache_set" \notin { reqs[r].stages[i] : i \in DOMAIN reqs[r].stages }


(***************************************************************************)
(* SpecCL: GroqClassifier.classify.  A context is a dict, the sequence of  *)
(* its <<key, value>> items; a value is a string, <<"str", s>>, or JSON     *)
(* null, <<"null">>.  Confidences are in hundredths.  The remote call ends *)
(* with a reply (its lines "KEY: value"), a reply whose content is not a   *)
(* string, a timeout or another error.                                     *)
(***************************************************************************)
Str(s) == <<"str", s>>
Null == <<"null">>

\* ClassificationResult(tier, confidence, reason), returned.
ClassificationResult(tier, confidence, reason) ==
    [raised |-> FALSE, tier |-> tier, confidence |-> confidence, reason |-> reason]

\* An exception leaving classify: tenacity's retry calls the body again and
\* raises RetryError after the third attempt.
Raised(exception) ==
    [raised |-> TRUE, tier |-> None, confidence |-> 0, reason |-> exception]

\* _quick_classify with the confidence and reason of each heuristic.
QuickResult(query) ==
    CASE QuickClassify(query) = "CACHE_ONLY" ->
            ClassificationResult("CACHE_ONLY", 90, "Query zu vage")
      [] QuickClassify(query) = "PREMIUM" ->
            ClassificationResult("PREMIUM", 85, "Premium-Indikatoren")
      [] QuickClassify(query) = "CHEAP" ->
            ClassificationResult("CHEAP", 85, "Einfache Erklaerung/Definition")

\* _format_context: context["code_snippet"][:200] raises TypeError for a
\* value that cannot be sliced; the other values are formatted as they are.
FormatContext(context) ==
    IF \E i \in DOMAIN context :
          context[i][1] = "code_snippet" /\ context[i][2][1] # "str"
    THEN [raised |-> TRUE, parts |-> <<>>]
    ELSE [raised |-> FALSE,
          parts |-> [i \in DOMAIN context |-> context[i][1]]]

\* float(text): the texts that parse, in hundredths; 0 stands for ValueError.
ParseFloat(text) ==
    CASE text = "0.9" -> 90
      [] text = "0.2" -> 20
      [] OTHER -> 0

\* _parse_response, line by line: a later line overrides an earlier one.
RECURSIVE ParseLines(_, _)
ParseLines(lines, acc) ==
    IF lines = <<>> THEN acc
    ELSE LET line == Head(lines)
             next ==
               CASE line.key = "TIER" ->
                       [acc EXCEPT !.tier = IF Upper(line.value) \in IntentTiers
                                            THEN Upper(line.value) ELSE "CHEAP"]
                 [] line.key = "CONFIDENCE" ->
                       [acc EXCEPT !.confidence = IF ParseFloat(line.value) # 0
                                                  THEN ParseFloat(line.value) ELSE 50]
                 [] line.key = "REASON" -> [acc EXCEPT !.reason = line.value]
                 [] OTHER -> acc
         IN  ParseLines(Tail(lines), next)

\* _parse_response(content)
ParseResponse(content) ==
    ParseLines(content, ClassificationResult("CHEAP", 50, "Parsed from response"))

\* classify after its quick heuristics: the context is formatted before the
\* try block, the remote call and the parsing are inside it.
ClassifyRemote(context, outcome) ==
    IF context # <<>> /\ FormatContext(context).raised
    THEN Raised("RetryError")
    ELSE CASE outcome.kind = "reply" -> ParseResponse(outcome.content)
           [] outcome.kind = "timeout" ->
                 ClassificationResult("CHEAP", 50, "Router timeout - defaulting to cheap tier")
           [] OTHER -> ClassificationResult("CHEAP", 30, "Classification error")

\* GroqClassifier.classify(query, context) when the remote call ends with
\* outcome.
Classify(query, context, outcome) ==
    IF QuickClassify(query) # None THEN QuickResult(query)
    ELSE ClassifyRemote(context, outcome)

CLQueries == {FixText, MathText, LruText, OkText}

CLContexts ==
    { <<>>,
      << <<"file_path", Str("a.py")>> >>,
      << <<"file_path", Null>> >>,
      << <<"code_snippet", Str("x = 1")>> >>,
      << <<"file_path", Str("a.py")>>, <<"code_snippet", Null>> >> }

CLReplies ==
    { << [key |-> "TIER", value |-> "premium"], [key |-> "CONFIDENCE", value |-> "0.9"],
         [key |-> "REASON", value |-> "needs analysis"] >>,
      << [key |-> "TIER", value |-> "LOCAL"], [key |-> "CONFIDENCE", value |-> "0.2"] >>,
      << [key |-> "TIER", value |-> "BOGUS"] >>,
      << [key |-> "CONFIDENCE", value |-> "high"] >>,
      << >> }

CLOutcomes ==
    { [kind |-> "reply", content |-> c] : c \in CLReplies } \cup
    { [kind |-> k, content |-> <<>>] : k \in {"timeout", "error", "not_text"} }

InitCL == InitBG

\* await classifier.classify(query, context)
CLClassify ==
    /\ \E query \in CLQueries, context \in CLContexts, outcome \in CLOutcomes :
          last' = [op |-> "classify", query |-> query, context |-> context,
                   outcome |-> outcome, result |-> Classify(query, context, outcome)]
    /\ UNCHANGED <<components, now, today, budget_guard, kill_switch, rate_limiter, exact_cache,
                   providers, reqs, hist>>

NextCL == CLClassify

SpecCL == InitCL /\ [][NextCL]_vars

\* C20: classify never raises, and when the remote classifier was asked and
\* its call timed out or failed, or its reply held no tier that parses, the
\* result is tier CHEAP with a confidence of at most 0.5 and a reason.
C20_ClassifyNeverRaises ==
    last.op = "classify"
    => /\ ~last.result.raised
       /\ (/\ QuickClassify(last.query) = None
           /\ \/ last.outcome.kind # "reply"
              \/ \A i \in DOMAIN last.outcome.content :
                    last.outcome.content[i].key # "TIER")
          => /\ last.result.tier = "CHEAP"
             /\ last.result.confidence <= 50
             /\ last.result.reason # None


(***************************************************************************)
(* numpy float32 arithmetic (IEEE 754 binary32, round to nearest, ties to  *)
(* even).  A float32 is [sign, m, e] with value sign * m * 2^e, where      *)
(* 2^23 <= m < 2^24, or m = 0 for zero.  Subnormals, infinities and NaN    *)
(* do not arise from the vectors used here.  A product or a square of two  *)
(* significands does not fit a machine integer: it is kept as two limbs    *)
(* <<hi, lo>> of value hi * 2^24 + lo.                                     *)
(***************************************************************************)
SignificandBits == 24
Limb == 2 ^ SignificandBits
HalfLimb == 2 ^ 12

F32Zero == [sign |-> 1, m |-> 0, e |-> 0]

\* The number of bits of n > 0.
RECURSIVE BitLen(_)
BitLen(n) == IF n = 0 THEN 0 ELSE 1 + BitLen(n \div 2)

\* a * b for a, b < 2^26, as two limbs.
MulLimbs(a, b) ==
    LET a1 == a \div HalfLimb
        a0 == a % HalfLimb
        b1 == b \div HalfLimb
        b0 == b % HalfLimb
        mid == a1 * b0 + a0 * b1
        low == a0 * b0 + (mid % HalfLimb) * HalfLimb
    IN  << a1 * b1 + mid \div HalfLimb + low \div Limb, low % Limb >>

\* x <= y for two-limb numbers.
LimbsLeq(x, y) == x[1] < y[1] \/ (x[1] = y[1] /\ x[2] <= y[2])

\* The float32 nearest to sign * (hi * 2^24 + lo + a fraction) * 2^e, where
\* sticky says that the fraction is not zero.  For hi = 0 the value must be
\* exact.
RoundF32(sign, hi, lo, sticky, e) ==
    IF hi = 0
    THEN IF lo = 0 THEN F32Zero
         ELSE LET up == SignificandBits - BitLen(lo)
              IN  [sign |-> sign, m |-> lo * 2 ^ up, e |-> e - up]
    ELSE LET k == BitLen(hi)
             kept == IF k <= SignificandBits
                     THEN hi * 2 ^ (SignificandBits - k) + lo \div 2 ^ k
                     ELSE hi \div 2 ^ (k - SignificandBits)
             rest == IF k <= SignificandBits THEN lo % 2 ^ k
                     ELSE (hi % 2 ^ (k - SignificandBits)) * Limb + lo
             half == 2 ^ (k - 1)
             roundUp == \/ rest > half
                        \/ rest = half /\ (sticky \/ kept % 2 = 1)
             m == IF roundUp THEN kept + 1 ELSE kept
         IN  IF m = Limb
             THEN [sign |-> sign, m |-> Limb \div 2, e |-> e + k + 1]
             ELSE [sign |-> sign, m |-> m, e |-> e + k]

\* np.float32(n) for an integer |n| < 2^24.
F32(n) ==
    IF n < 0 THEN RoundF32(-1, 0, -n, FALSE, 0) ELSE RoundF32(1, 0, n, FALSE, 0)

\* x * y
F32Mul(x, y) ==
    IF x.m = 0 \/ y.m = 0 THEN F32Zero
    ELSE LET p == MulLimbs(x.m, y.m)
         IN  RoundF32(x.sign * y.sign, p[1], p[2], FALSE, x.e + y.e)

\* The quotient bits of r / d after steps more doublings: <<quotient, rest>>.
RECURSIVE LongDiv(_, _, _, _)
LongDiv(q, r, d, steps) ==
    IF steps = 0 THEN <<q, r>>
    ELSE IF 2 * r >= d THEN LongDiv(2 * q + 1, 2 * r - d, d, steps - 1)
    ELSE LongDiv(2 * q, 2 * r, d, steps - 1)

\* x / y for y # 0
F32Div(x, y) ==
    IF x.m = 0 THEN F32Zero
    ELSE LET qr == LongDiv(x.m \div y.m, x.m % y.m, y.m, SignificandBits + 1)
         IN  RoundF32(x.sign * y.sign, qr[1] \div Limb, qr[1] % Limb, qr[2] # 0,
                      x.e - y.e - (SignificandBits + 1))

\* The largest s with s * s <= n, found bit by bit from bit b down.
RECURSIVE IntSqrt(_, _, _)
IntSqrt(n, s, b) ==
    IF b < 0 THEN s
    ELSE LET c == s + 2 ^ b
         IN  IF LimbsLeq(MulLimbs(c, c), n) THEN IntSqrt(n, c, b - 1)
             ELSE IntSqrt(n, s, b - 1)

\* np.sqrt(x) for x >= 0
F32Sqrt(x) ==
    IF x.m = 0 THEN F32Zero
    ELSE LET k == IF x.e % 2 = 0 THEN 2 ELSE 1    \* x.e - 24 - k is even
             n == << x.m * 2 ^ k, 0 >>
             s == IntSqrt(n, 0, SignificandBits)
         IN  RoundF32(1, s \div Limb, s % Limb, MulLimbs(s, s) # n,
                      (x.e - SignificandBits - k) \div 2)

\* x + y
F32Add(x, y) ==
    IF x.m = 0 THEN y
    ELSE IF y.m = 0 THEN x
    ELSE LET xBig == x.e > y.e \/ (x.e = y.e /\ x.m >= y.m)
             big == IF xBig THEN x ELSE y
             small == IF xBig THEN y ELSE x
             d == big.e - small.e
         IN  IF d > SignificandBits + 1 THEN big
             ELSE LET bhi == IF d >= SignificandBits
                             THEN big.m * 2 ^ (d - SignificandBits)
                             ELSE big.m \div 2 ^ (SignificandBits - d)
                      blo == IF d >= SignificandBits THEN 0
                             ELSE (big.m % 2 ^ (SignificandBits - d)) * 2 ^ d
                      sum == blo + small.m
                      dif == blo - small.m
                  IN  IF big.sign = small.sign
                      THEN RoundF32(big.sign, bhi + sum \div Limb, sum % Limb, FALSE,
                                    small.e)
                      ELSE IF dif >= 0
                      THEN RoundF32(big.sign, bhi, dif, FALSE, small.e)
                      ELSE RoundF32(big.sign, bhi - 1, dif + Limb, FALSE, small.e)

\* -x and x < y
F32Neg(x) == [x EXCEPT !.sign = -x.sign]
F32Less(x, y) == LET d == F32Add(x, F32Neg(y)) IN d.m # 0 /\ d.sign = -1


(***************************************************************************)
(* EmbeddingService (src/retrieval/embeddings.py).  An embedding is a      *)
(* sequence of float32.  The disk cache is a function from the texts that  *)
(* have a file to the array saved in it.                                   *)
(***************************************************************************)
\* self.dimension of the model's service.
Dimension == 2

\* stop_after_attempt(3) on _embed_voyage and _embed_openai.
EmbedAttempts == 3

Texts == {FixText, MathText, OkText}

\* The embedding a provider answers with for a text.
VoyageEmbedding(text) ==
    CASE text = FixText -> <<F32(1), F32(1)>>
      [] text = MathText -> <<F32(3), F32(4)>>
      [] text = OkText -> <<F32(-4), F32(3)>>

OpenAIEmbedding(text) ==
    CASE text = FixText -> <<F32(1), F32(2)>>
      [] text = MathText -> <<F32(2), F32(1)>>
      [] text = OkText -> <<F32(-1), F32(1)>>

\* The first bytes of hashlib.sha256(text.encode()).
HashBytes(text) ==
    CASE text = FixText -> <<28, 110, 108>>
      [] text = MathText -> <<79, 238, 99>>
      [] text = OkText -> <<38, 137, 54>>

\* np.dot(a, b): the products accumulated from left to right.
RECURSIVE DotFrom(_, _, _, _)
DotFrom(a, b, i, acc) ==
    IF i > Len(a) THEN acc
    ELSE DotFrom(a, b, i + 1, F32Add(acc, F32Mul(a[i], b[i])))

Dot(a, b) == DotFrom(a, b, 1, F32Zero)

\* np.linalg.norm(a)
Norm(a) == F32Sqrt(Dot(a, a))

\* embedding[i] = (byte_val - 128) / 128.0 for the bytes of the hash, zero
\* for the other components, up to component n.
RECURSIVE HashComponents(_, _)
HashComponents(bytes, n) ==
    IF n = 0 THEN <<>>
    ELSE Append(HashComponents(bytes, n - 1),
                IF n <= Len(bytes) THEN F32Div(F32(bytes[n] - 128), F32(128))
                ELSE F32Zero)

\* embedding / norm, up to component n.
RECURSIVE Scaled32(_, _, _)
Scaled32(embedding, norm, n) ==
    IF n = 0 THEN <<>>
    ELSE Append(Scaled32(embedding, norm, n - 1), F32Div(embedding[n], norm))

\* _hash_embedding(text): (byte - 128) / 128.0 per byte, normalized.
HashEmbedding(text) ==
    LET embedding == HashComponents(HashBytes(text), Dimension)
        norm == Norm(embedding)
    IN  IF norm.m > 0 THEN Scaled32(embedding, norm, Dimension) ELSE embedding

\* The function that maps every x of S to HashEmbedding(x), tabulated.
RECURSIVE HashEmbeddingsOf(_)
HashEmbeddingsOf(S) ==
    IF S = {} THEN <<>>
    ELSE LET x == CHOOSE x \in S : TRUE
         IN  (x :> HashEmbedding(x)) @@ HashEmbeddingsOf(S \ {x})

\* _hash_embedding of every text, evaluated once.
HashEmbeddings == HashEmbeddingsOf(Texts)

\* EmbeddingService(anthropic_key, openai_key): the clients that exist.
EmbeddingServiceInit(voyage, openai) ==
    [voyage |-> voyage, openai |-> openai, cache |-> <<>>]

\* _cache_embedding(text, embedding); np.save failing is logged only.
CacheEmbedding(es, text, embedding, saved) ==
    IF saved
    THEN [es EXCEPT !.cache = [t \in DOMAIN es.cache \cup {text} |->
                                  IF t = text THEN embedding ELSE es.cache[t]]]
    ELSE es

\* The remote calls of a provider call that fails `fails' times in a row.
RemoteCalls(fails) == IF fails < EmbedAttempts THEN fails + 1 ELSE EmbedAttempts

\* embed(text).  voyage_fails and openai_fails are the numbers of failing
\* attempts each provider starts with, saved whether np.save succeeds.
\* Returns the embedding, the service and the number of remote calls made.
Embed(es, text, voyage_fails, openai_fails, saved) ==
    IF text \in DOMAIN es.cache
    THEN [embedding |-> es.cache[text], es |-> es, calls |-> 0]
    ELSE LET voyage_calls == IF es.voyage THEN RemoteCalls(voyage_fails) ELSE 0
             openai_calls == IF es.openai THEN RemoteCalls(openai_fails) ELSE 0
         IN  IF es.voyage /\ voyage_fails < EmbedAttempts
             THEN [embedding |-> VoyageEmbedding(text),
                   es |-> CacheEmbedding(es, text, VoyageEmbedding(text), saved),
                   calls |-> voyage_calls]
             ELSE IF es.openai /\ openai_fails < EmbedAttempts
             THEN [embedding |-> OpenAIEmbedding(text),
                   es |-> CacheEmbedding(es, text, OpenAIEmbedding(text), saved),
                   calls |-> voyage_calls + openai_calls]
             ELSE [embedding |-> HashEmbeddings[text], es |-> es,
                   calls |-> voyage_calls + openai_calls]


(***************************************************************************)
(* SpecES: the embedding service alone, driven through embed and           *)
(* clear_cache.                                                            *)
(***************************************************************************)
\* The failing attempts a provider call starts with.
FailCounts == 0 .. EmbedAttempts

InitES ==
    /\ IdleInit
    /\ \E voyage \in BOOLEAN, openai \in BOOLEAN :
          embedding_service = EmbeddingServiceInit(voyage, openai)
    /\ semantic_cache = <<>>
    /\ bm25_search = <<>>
    /\ policy_gate = <<>>
    /\ circuit_breaker = <<>>

\* await embedding_service.embed(text)
ESEmbed ==
    /\ \E text \in Texts, voyage_fails \in FailCounts, openai_fails \in FailCounts,
          saved \in BOOLEAN :
          LET r == Embed(embedding_service, text, voyage_fails, openai_fails, saved)
          IN  /\ embedding_service' = r.es
              /\ last' = [op |-> "embed", text |-> text, embedding |-> r.embedding,
                          calls |-> r.calls]
    /\ UNCHANGED <<now, today, budget_guard, kill_switch, rate_limiter, exact_cache,
                   providers, reqs, hist, semantic_cache, bm25_search, policy_gate,
                   circuit_breaker>>

\* embedding_service.clear_cache()
ESClearCache ==
    /\ embedding_service' = [embedding_service EXCEPT !.cache = <<>>]
    /\ last' = [op |-> "clear_cache"]
    /\ UNCHANGED <<now, today, budget_guard, kill_switch, rate_limiter, exact_cache,
                   providers, reqs, hist, semantic_cache, bm25_search, policy_gate,
                   circuit_breaker>>

NextES == ESEmbed \/ ESClearCache

SpecES == InitES /\ [][NextES]_vars

\* C23: two successive embed calls of the same text make at most one remote
\* provider call in total.
C23_AtMostOneRemoteCall ==
    [][(/\ last.op = "embed"
        /\ last'.op = "embed"
        /\ last'.text = last.text)
       => last.calls + last'.calls <= 1]_vars


(***************************************************************************)
(* SemanticCache (src/cache/semantic_cache.py).  The table is a function   *)
(* from row ids to rows.  A similarity is a Python float, counted in units *)
(* of 2^-24: a float32 in [0.5, 2) is a whole number of units, a smaller   *)
(* one is rounded down to the unit.  The adjustments, which Python makes   *)
(* in float64, are made here on units and rounded down.                    *)
(***************************************************************************)
\* 1.0 in units.
One == Limb

\* LIMIT 1000 of the candidate query.
CandidateLimit == 1000

\* similarity_threshold = 0.92, in hundredths.
SimilarityThreshold == 92

\* to_remove = count - self.max_entries + 100
SemanticCleanupBuffer == 100

\* SemanticCache(embedding_service, db_path, similarity_threshold, max_entries)
SemanticCacheInit(similarity_threshold, max_entries) ==
    [similarity_threshold |-> similarity_threshold, max_entries |-> max_entries,
     rows |-> <<>>, next_id |-> 1]

\* float(x) of a float32, in units.
ToUnits(x) ==
    LET shift == x.e + SignificandBits
    IN  x.sign * (IF shift >= 0 THEN x.m * 2 ^ shift ELSE x.m \div 2 ^ (-shift))

\* _cosine_similarity(a, b): the float32 returned, or "raised" where np.dot
\* raises ValueError (the shapes differ).
CosineSimilarity(a, b) ==
    LET norm_a == Norm(a)
        norm_b == Norm(b)
    IN  IF norm_a.m = 0 \/ norm_b.m = 0 THEN [raised |-> FALSE, value |-> F32Zero]
        ELSE IF Len(a) # Len(b) THEN [raised |-> TRUE, value |-> F32Zero]
        ELSE [raised |-> FALSE,
              value |-> F32Div(Dot(a, b), F32Mul(norm_a, norm_b))]

\* The embeddings embed can return, and _cosine_similarity of every two of
\* them, evaluated once.
Embeddings ==
    UNION { {VoyageEmbedding(text), OpenAIEmbedding(text), HashEmbeddings[text]} :
            text \in Texts }

CosineSimilarities ==
    { [a |-> pair[1], b |-> pair[2], result |-> CosineSimilarity(pair[1], pair[2])] :
      pair \in Embeddings \X Embeddings }

\* self._cosine_similarity(a, b), looked up.
CosineOf(a, b) ==
    (CHOOSE entry \in CosineSimilarities : entry.a = a /\ entry.b = b).result

\* The keys of a dict, and its value for a key it has.
Keys(ctx) == { ctx[i][1] : i \in DOMAIN ctx }
ValueOf(ctx, k) == ctx[CHOOSE i \in DOMAIN ctx : ctx[i][1] = k][2]

\* _context_similarity(ctx1, ctx2), in units.
ContextSimilarity(ctx1, ctx2) ==
    LET keys1 == Keys(ctx1)
        keys2 == Keys(ctx2)
        common_keys == keys1 \cap keys2
        key_sim == (One * Cardinality(common_keys)) \div Cardinality(keys1 \cup keys2)
        value_matches == Cardinality({k \in common_keys :
                                        ValueOf(ctx1, k) = ValueOf(ctx2, k)})
        value_sim == (One * value_matches) \div Cardinality(common_keys)
    IN  IF keys1 = {} \/ keys2 = {} THEN 0
        ELSE IF common_keys = {} THEN key_sim
        ELSE (key_sim + value_sim) \div 2

\* similarity * 0.8 + context_bonus * 0.2 when the query and the row both
\* carry a context, in units.
Blended(row, context, cosine) ==
    IF context # <<>> /\ row.context # <<>>
    THEN (cosine * 8 + ContextSimilarity(context, row.context) * 2) \div 10
    ELSE cosine

\* similarity *= (0.8 + 0.2 * validity_ratio) when the row was verified.
Adjusted(row, blended) ==
    IF row.verified_count + row.invalid_count > 0
    THEN (blended * (8 * (row.verified_count + row.invalid_count)
                     + 2 * row.verified_count))
           \div (10 * (row.verified_count + row.invalid_count))
    ELSE blended

\* The similarity of a row for the query after the context bonus and the
\* verification history adjustment, in units.
AdjustedSimilarity(row, query_embedding, context) ==
    Adjusted(row, Blended(row, context,
                          ToUnits(CosineOf(query_embedding, row.embedding).value)))

\* The largest element of a set of numbers.
SetMax(S) == CHOOSE x \in S : \A y \in S : y <= x

\* The rows the candidate query returns: the CandidateLimit newest.
Candidates(rows) ==
    { id \in DOMAIN rows :
        Cardinality({ o \in DOMAIN rows : rows[o].created_at > rows[id].created_at })
          < CandidateLimit }

\* The similarity the scan computes for every candidate row.
Scores(sc, query_embedding, context) ==
    [id \in Candidates(sc.rows) |->
        AdjustedSimilarity(sc.rows[id], query_embedding, context)]

\* The rows the scan can keep as best_match when the best score is
\* best_score: rows created in the same second are scanned in an order SQLite
\* chooses, and of equally similar rows the first scanned wins.
BestMatches(sc, score, best_score) ==
    { id \in DOMAIN score :
        /\ score[id] = best_score
        /\ \A o \in DOMAIN score :
              score[o] = best_score => sc.rows[o].created_at <= sc.rows[id].created_at }

\* The end of search: the match and the hit statistics update when
\* best_score reaches the threshold, None otherwise.
SearchResults(sc, first, best_score, t) ==
    IF best_score > 0 /\ best_score * 100 >= sc.similarity_threshold * One
    THEN { [raised |-> FALSE,
            match |-> << [id |-> id, query |-> sc.rows[id].query,
                          response |-> sc.rows[id].response, score |-> best_score,
                          risk_score |-> sc.rows[id].risk_score,
                          context |-> sc.rows[id].context] >>,
            sc |-> [sc EXCEPT !.rows[id].hit_count = @ + 1,
                              !.rows[id].last_hit_at = <<t>>]] : id \in first }
    ELSE { [raised |-> FALSE, match |-> <<>>, sc |-> sc] }

\* The scan of search over the scored candidates.
SearchScored(sc, score, t) ==
    UNION { SearchResults(sc, BestMatches(sc, score, best_score), best_score, t) :
            best_score \in { SetMax({0} \cup { score[id] : id \in DOMAIN score }) } }

\* search, given the embedding of the query, at time t: the results it can
\* have and the table afterwards.  match is <<>> for None.
Search(sc, query_embedding, context, t) ==
    IF \E id \in Candidates(sc.rows) :
          CosineOf(query_embedding, sc.rows[id].embedding).raised
    THEN { [raised |-> TRUE, match |-> <<>>, sc |-> sc] }
    ELSE UNION { SearchScored(sc, score, t) :
                 score \in { Scores(sc, query_embedding, context) } }

\* ORDER BY (invalid_count > verified_count first), hit_count ASC,
\* created_at ASC: row a sorts before row b.
RemoveBefore(a, b) ==
    LET rank(r) == IF r.invalid_count > r.verified_count THEN 0 ELSE 1
    IN  \/ rank(a) < rank(b)
        \/ rank(a) = rank(b) /\ a.hit_count < b.hit_count
        \/ rank(a) = rank(b) /\ a.hit_count = b.hit_count /\ a.created_at < b.created_at

\* _maybe_cleanup: the tables it can leave.
SemanticMaybeCleanup(sc) ==
    LET all == DOMAIN sc.rows
        count == Cardinality(all)
        to_remove == count - sc.max_entries + SemanticCleanupBuffer
    IN  IF count > sc.max_entries
        THEN { [sc EXCEPT !.rows = [id \in all \ gone |-> sc.rows[id]]] :
                 gone \in { g \in SUBSET all :
                              /\ Cardinality(g) = IF to_remove < count THEN to_remove ELSE count
                              /\ \A a \in g, b \in all \ g :
                                    ~RemoveBefore(sc.rows[b], sc.rows[a]) } }
        ELSE { sc }

\* store, given the embedding of the query, at time t: the tables it can
\* leave.  context {} and None are both stored as NULL, <<>>.
Store(sc, query, embedding, response, context, risk_score, t) ==
    LET row == [query |-> query, embedding |-> embedding, response |-> response,
                context |-> context, risk_score |-> risk_score, created_at |-> t,
                hit_count |-> 0, last_hit_at |-> <<>>, verified_count |-> 0,
                invalid_count |-> 0]
        put == [sc EXCEPT !.rows = [id \in DOMAIN sc.rows \cup {sc.next_id} |->
                                       IF id = sc.next_id THEN row ELSE sc.rows[id]],
                          !.next_id = @ + 1]
    IN  SemanticMaybeCleanup(put)

\* record_verification(cache_id, is_valid)
RecordVerification(sc, cache_id, is_valid) ==
    IF cache_id \notin DOMAIN sc.rows THEN sc
    ELSE IF is_valid THEN [sc EXCEPT !.rows[cache_id].verified_count = @ + 1]
    ELSE [sc EXCEPT !.rows[cache_id].invalid_count = @ + 1]


(***************************************************************************)
(* SpecSC: the semantic cache with its embedding service, driven through   *)
(* store, search and record_verification.  A provider either answers at    *)
(* the first attempt or fails at every attempt.                            *)
(***************************************************************************)
SCMaxEntries == 2
MaxStores == 3
MaxVerifications == 1

SCContexts == { <<>>, << <<"file_path", "a.py">> >> }

SCQueries == {FixText, MathText}

ProviderOutcomes == {0, EmbedAttempts}

\* The embeddings the hash-based fallback produces.
PseudoEmbeddings == { HashEmbeddings[text] : text \in Texts }

InitSC ==
    /\ IdleInit
    /\ \E voyage \in BOOLEAN, openai \in BOOLEAN :
          embedding_service = EmbeddingServiceInit(voyage, openai)
    /\ semantic_cache = SemanticCacheInit(SimilarityThreshold, SCMaxEntries)
    /\ bm25_search = <<>>
    /\ policy_gate = <<>>
    /\ circuit_breaker = <<>>

\* await semantic_cache.store(query, response, context)
SCStore ==
    /\ semantic_cache.next_id <= MaxStores
    /\ \E query \in SCQueries, context \in SCContexts,
          voyage_fails \in ProviderOutcomes, openai_fails \in ProviderOutcomes :
          LET r == Embed(embedding_service, query, voyage_fails, openai_fails, TRUE)
          IN  /\ embedding_service' = r.es
              /\ semantic_cache' \in Store(semantic_cache, query, r.embedding, AnswerText,
                                           context, 50, now)
              /\ last' = [op |-> "store", query |-> query, embedding |-> r.embedding,
                          id |-> semantic_cache.next_id]
    /\ UNCHANGED <<now, today, budget_guard, kill_switch, rate_limiter, exact_cache,
                   providers, reqs, hist, bm25_search, policy_gate,
                   circuit_breaker>>

\* await semantic_cache.search(query, context)
SCSearch ==
    /\ \A id \in DOMAIN semantic_cache.rows : semantic_cache.rows[id].hit_count < MaxHits
    /\ \E query \in SCQueries, context \in SCContexts,
          voyage_fails \in ProviderOutcomes, openai_fails \in ProviderOutcomes :
          LET r == Embed(embedding_service, query, voyage_fails, openai_fails, TRUE)
          IN  /\ embedding_service' = r.es
              /\ \E found \in Search(semantic_cache, r.embedding, context, now) :
                    /\ semantic_cache' = found.sc
                    /\ last' = [op |-> "search", query |-> query,
                                embedding |-> r.embedding, raised |-> found.raised,
                                match |-> found.match,
                                hits |-> [id \in DOMAIN semantic_cache.rows |->
                                            semantic_cache.rows[id].hit_count]]
    /\ UNCHANGED <<now, today, budget_guard, kill_switch, rate_limiter, exact_cache,
                   providers, reqs, hist, bm25_search, policy_gate,
                   circuit_breaker>>

\* await semantic_cache.record_verification(cache_id, is_valid)
SCRecordVerification ==
    /\ \E cache_id \in DOMAIN semantic_cache.rows, is_valid \in BOOLEAN :
          /\ semantic_cache.rows[cache_id].verified_count
               + semantic_cache.rows[cache_id].invalid_count < MaxVerifications
          /\ Cardinality({ id \in DOMAIN semantic_cache.rows \ {cache_id} :
                             semantic_cache.rows[id].verified_count
                               + semantic_cache.rows[id].invalid_count > 0 })
               < MaxVerifications
          /\ semantic_cache' = RecordVerification(semantic_cache, cache_id, is_valid)
          /\ last' = [op |-> "record_verification", id |-> cache_id]
    /\ UNCHANGED <<now, today, budget_guard, kill_switch, rate_limiter, exact_cache,
                   providers, reqs, hist, embedding_service, bm25_search, policy_gate,
                   circuit_breaker>>

NextSC == SCStore \/ SCSearch \/ SCRecordVerification

SpecSC == InitSC /\ [][NextSC]_vars

\* C21: no stored row holds a pseudo-embedding, and a search that had only
\* the pseudo-embedding of its query returned None without comparing it.
C21_NoPseudoEmbedding ==
    /\ \A id \in DOMAIN semantic_cache.rows :
          semantic_cache.rows[id].embedding \notin PseudoEmbeddings
    /\ (last.op = "search" /\ last.embedding \in PseudoEmbeddings)
       => (~last.raised /\ last.match = <<>>)

\* C22: a search that returns a match returns one whose score is at least
\* the threshold and at most 1, and has incremented the hit counter of that
\* row and of no other; a search that returns None has incremented none.
C22_ScoreInRange ==
    (last.op = "search" /\ ~last.raised)
    => /\ last.match # <<>>
          => /\ last.match[1].score * 100 >= semantic_cache.similarity_threshold * One
             /\ last.match[1].score <= One
       /\ \A id \in DOMAIN last.hits :
             semantic_cache.rows[id].hit_count =
                last.hits[id] + (IF last.match # <<>> /\ last.match[1].id = id THEN 1 ELSE 0)


(***************************************************************************)
(* BM25Search (src/retrieval/bm25_search.py).  A text is the sequence of   *)
(* its words; the words are lower case, free of FTS5 special characters    *)
(* and left alone by the porter stemmer, so that the tokens of a text are  *)
(* its words.  A row joins query_index and query_meta on rowid.  bm25() of *)
(* SQLite FTS5 is computed with its k1 = 1.2 and b = 0.75, the logarithm   *)
(* to about 3/1000; scores are in millionths.                              *)
(***************************************************************************)
MaxTerms == 10
MinLetters == 2
DedupSearchScore == 95
DedupScore == 98
ScoreOne == 1000 * 1000
LogBits == 10
LogScale == 2 ^ 14

BM25SearchInit == [rows |-> <<>>, next_rowid |-> 1]

\* The words _escape_fts_query keeps.
KeptWord(w) == Len(w) > MinLetters /\ w \notin {"and", "or", "not"}

\* _escape_fts_query(query): the phrases of the OR query; <<>> is '""'.
EscapeFtsQuery(words) ==
    SubSeq(SelectSeq(words, KeptWord), 1,
           IF Len(SelectSeq(words, KeptWord)) < MaxTerms
           THEN Len(SelectSeq(words, KeptWord)) ELSE MaxTerms)

\* The tokens of a row of query_index: its three columns.
Doc(row) == row.query \o row.response \o row.context

\* The occurrences of a term among the tokens.
Freq(doc, term) == Cardinality({ i \in DOMAIN doc : doc[i] = term })

\* The rows that hold a term.
NHit(rows, term) == Cardinality({ id \in DOMAIN rows : Freq(Doc(rows[id]), term) > 0 })

\* The tokens of all rows.
RECURSIVE TotalTokens(_, _)
TotalTokens(rows, ids) ==
    IF ids = {} THEN 0
    ELSE LET id == CHOOSE id \in ids : TRUE
         IN  Len(Doc(rows[id])) + TotalTokens(rows, ids \ {id})

\* log2(p / q) in units of 2^-LogBits for p >= q: the integer part k, then
\* one bit per squaring of z = p / (q * 2^k), kept in units of 1 / LogScale.
RECURSIVE LogBitsFrom(_, _, _)
LogBitsFrom(z, acc, i) ==
    IF i = 0 THEN acc
    ELSE IF (z * z) \div LogScale >= 2 * LogScale
         THEN LogBitsFrom((z * z) \div (2 * LogScale), 2 * acc + 1, i - 1)
         ELSE LogBitsFrom((z * z) \div LogScale, 2 * acc, i - 1)

RECURSIVE IntLog2(_, _, _)
IntLog2(p, q, k) == IF 2 * q * 2 ^ k <= p THEN IntLog2(p, q, k + 1) ELSE k

Log2Of(p, q, k) == LogBitsFrom((p * LogScale) \div (q * 2 ^ k), k, LogBits)

\* 1000 * ln(p / q) for p >= q.
Ln1000(p, q) == (Log2Of(p, q, IntLog2(p, q, 0)) * 693) \div (2 ^ LogBits)

\* The inverse document frequency of a term held by nhit of nrow rows,
\* in thousandths: log((nrow - nhit + 0.5) / (nhit + 0.5)), and 1e-6 (here
\* 0) when that is not positive.
Idf1000(nrow, nhit) ==
    IF 2 * (nrow - nhit) + 1 <= 2 * nhit + 1 THEN 0
    ELSE Ln1000(2 * (nrow - nhit) + 1, 2 * nhit + 1)

\* freq * (k1 + 1) / (freq + k1 * (1 - b + b * len / avgdl)) in thousandths,
\* for a row of len tokens among nrow rows of total tokens.
TermWeight1000(freq, len, nrow, total) ==
    (22000 * freq * total) \div (10 * freq * total + 3 * total + 9 * len * nrow)

\* -bm25(query_index) of a row for the phrases from the i-th on.
RECURSIVE Bm25From(_, _, _, _)
Bm25From(rows, id, terms, i) ==
    IF i > Len(terms) THEN 0
    ELSE Idf1000(Cardinality(DOMAIN rows), NHit(rows, terms[i]))
           * TermWeight1000(Freq(Doc(rows[id]), terms[i]), Len(Doc(rows[id])),
                            Cardinality(DOMAIN rows), TotalTokens(rows, DOMAIN rows))
         + Bm25From(rows, id, terms, i + 1)

\* normalized_score = min(1.0, raw_score / 10.0) of every row that matches
\* one of the phrases.
NormalizedScores(rows, terms) ==
    [id \in { id \in DOMAIN rows :
                \E i \in DOMAIN terms : Freq(Doc(rows[id]), terms[i]) > 0 } |->
        IF Bm25From(rows, id, terms, 1) \div 10 < ScoreOne
        THEN Bm25From(rows, id, terms, 1) \div 10 ELSE ScoreOne]

\* ORDER BY score LIMIT k: the orders SQLite can return the best k rows of
\* ids in (equal scores come in an order it chooses).
RECURSIVE Ranked(_, _, _)
Ranked(score, ids, k) ==
    IF k = 0 \/ ids = {} THEN { <<>> }
    ELSE UNION { { <<best>> \o rest : rest \in Ranked(score, ids \ {best}, k - 1) } :
                 best \in { b \in ids : \A o \in ids : score[o] <= score[b] } }

\* The rows fetched whose normalized_score >= min_score.
Kept(score, order, min_score) ==
    SelectSeq(order, LAMBDA id : score[id] * 100 >= min_score * ScoreOne)

\* The results of search from the rows kept.
SearchResultsOf(rows, score, kept) ==
    [i \in DOMAIN kept |->
        [query |-> rows[kept[i]].query, response |-> rows[kept[i]].response,
         score |-> score[kept[i]], rowid |-> kept[i]]]

\* search(query, top_k, min_score), min_score in hundredths: the result
\* lists it can return.
Bm25Search(bm, words, top_k, min_score) ==
    UNION { { SearchResultsOf(bm.rows, score, Kept(score, order, min_score)) :
              order \in Ranked(score, DOMAIN score, top_k) } :
            score \in { NormalizedScores(bm.rows, EscapeFtsQuery(words)) } }

\* The UPDATE of index_query: one more hit on the row found.
CountHit(bm, rowid, t) ==
    [bm EXCEPT !.rows[rowid].hit_count = @ + 1, !.rows[rowid].last_hit_at = <<t>>]

\* The two INSERTs of index_query.
InsertRow(bm, words, response, context, t) ==
    [bm EXCEPT !.rows = [id \in DOMAIN bm.rows \cup {bm.next_rowid} |->
                            IF id = bm.next_rowid
                            THEN [query |-> words, response |-> response,
                                  context |-> context, created_at |-> t,
                                  hit_count |-> 0, last_hit_at |-> <<>>]
                            ELSE bm.rows[id]],
               !.next_rowid = @ + 1]

\* index_query(query, response, context) at time t: the tables it can leave.
IndexQuery(bm, words, response, context, t) ==
    { IF existing # <<>> /\ existing[1].score * 100 > DedupScore * ScoreOne
      THEN CountHit(bm, existing[1].rowid, t)
      ELSE InsertRow(bm, words, response, context, t) :
      existing \in Bm25Search(bm, words, 1, DedupSearchScore) }

(***************************************************************************)
(* The index alone: queries are indexed and searched.                      *)
(***************************************************************************)
MaxIndexed == 3

BMQueries == { <<"fix", "the", "login", "bug">>, <<"fix">>, <<"ok">>,
               <<"sort", "sort", "sort">> }

InitBM ==
    /\ IdleInit
    /\ embedding_service = <<>>
    /\ semantic_cache = <<>>
    /\ bm25_search = BM25SearchInit
    /\ policy_gate = <<>>
    /\ circuit_breaker = <<>>

\* await bm25_search.index_query(query, response)
BMIndexQuery ==
    /\ bm25_search.next_rowid <= MaxIndexed
    /\ \E words \in BMQueries :
          /\ bm25_search' \in IndexQuery(bm25_search, words, <<AnswerText>>, <<>>, now)
          /\ last' = [op |-> "index_query", query |-> words]
    /\ UNCHANGED <<now, today, budget_guard, kill_switch, rate_limiter, exact_cache,
                   providers, reqs, hist, embedding_service, semantic_cache, policy_gate,
                   circuit_breaker>>

\* await bm25_search.search(query, top_k, min_score)
BMSearch ==
    /\ \E words \in BMQueries, top_k \in {1, 5}, min_score \in {0, 50} :
          \E results \in Bm25Search(bm25_search, words, top_k, min_score) :
             last' = [op |-> "search", query |-> words, results |-> results]
    /\ UNCHANGED <<now, today, budget_guard, kill_switch, rate_limiter, exact_cache,
                   providers, reqs, hist, components>>

NextBM == BMIndexQuery \/ BMSearch

SpecBM == InitBM /\ [][NextBM]_vars

\* The rows indexed for a query.
RowsOf(bm, words) == { id \in DOMAIN bm.rows : bm.rows[id].query = words }

\* C24: of two successive index_query calls with the same query the second
\* inserts nothing, leaves exactly one row for the query and adds exactly
\* one hit to it.
C24_IndexTwiceOneRow ==
    [][(/\ last.op = "index_query" /\ last'.op = "index_query"
        /\ last'.query = last.query)
       => /\ DOMAIN bm25_search'.rows = DOMAIN bm25_search.rows
          /\ Cardinality(RowsOf(bm25_search', last'.query)) = 1
          /\ \A id \in RowsOf(bm25_search', last'.query) :
                bm25_search'.rows[id].hit_count = bm25_search.rows[id].hit_count + 1]_vars


(***************************************************************************)
(* TierRouter (src/router/tier_router.py).  A message is its role and the  *)
(* length of its content; a message of a compressed list also tells which  *)
(* message of the input it is (from) and whether it was truncated.         *)
(* Confidences are in hundredths, risk scores in thousandths.              *)
(***************************************************************************)
CheapBudget == 4000
PremiumBudget == 16000
CharsPerToken == 4
MessageOverhead == 4
TruncationSlack == 50
IndicatorChars == 40

\* A message whose content has chars characters.
Sized(role, chars) == [role |-> role, chars |-> chars]

\* total_chars of _count_tokens
RECURSIVE TotalChars(_)
TotalChars(messages) ==
    IF messages = <<>> THEN 0 ELSE Head(messages).chars + TotalChars(Tail(messages))

\* _count_tokens(messages)
CountTokens(messages) ==
    (TotalChars(messages) \div CharsPerToken) + Len(messages) * MessageOverhead

\* len(content[:stop]) for a content of chars characters
SliceLen(chars, stop) ==
    IF stop >= 0 THEN (IF chars < stop THEN chars ELSE stop)
    ELSE (IF chars + stop > 0 THEN chars + stop ELSE 0)

\* _truncate_message(message, max_tokens); it never returns None.
TruncateMessage(message, max_tokens) ==
    IF message.chars <= max_tokens * CharsPerToken THEN message
    ELSE [message EXCEPT
            !.chars = SliceLen(@, max_tokens * CharsPerToken - TruncationSlack)
                        + IndicatorChars,
            !.truncated = TRUE]

\* msg_list: the messages as dicts, here with their place in the input.
MsgList(messages) ==
    [i \in DOMAIN messages |->
        [role |-> messages[i].role, chars |-> messages[i].chars, from |-> i,
         truncated |-> FALSE]]

IsSystem(m) == m.role = "system"
NotSystem(m) == m.role # "system"

\* The loop over reversed(non_system) from the i-th message down: the
\* messages inserted behind the system messages, in their final order.
RECURSIVE Admitted(_, _, _)
Admitted(non_system, i, remaining_budget) ==
    IF i = 0 THEN <<>>
    ELSE IF CountTokens(<<non_system[i]>>) <= remaining_budget
         THEN Admitted(non_system, i - 1,
                       remaining_budget - CountTokens(<<non_system[i]>>))
                \o <<non_system[i]>>
         ELSE <<TruncateMessage(non_system[i], remaining_budget)>>

TierBudget(tier) == IF tier = "PREMIUM" THEN PremiumBudget ELSE CheapBudget

\* The compression of a msg_list that is over the budget.
CompressList(msg_list, budget) ==
    SelectSeq(msg_list, IsSystem)
      \o Admitted(SelectSeq(msg_list, NotSystem), Len(SelectSeq(msg_list, NotSystem)),
                  budget - CountTokens(SelectSeq(msg_list, IsSystem)))

\* _compress_messages(messages, tier)
CompressMessages(messages, tier) ==
    IF CountTokens(MsgList(messages)) <= TierBudget(tier) THEN MsgList(messages)
    ELSE CompressList(MsgList(messages), TierBudget(tier))

\* requires_code, requires_analysis and complexity_score of a classification:
\* set by the quick heuristics, the defaults otherwise (the replies modelled
\* hold none of the three lines).
Details(classification) ==
    CASE classification.reason = "Premium-Indikatoren" ->
            [requires_code |-> TRUE, requires_analysis |-> TRUE, complexity_score |-> 80]
      [] classification.reason = "Einfache Erklaerung/Definition" ->
            [requires_code |-> FALSE, requires_analysis |-> FALSE, complexity_score |-> 30]
      [] OTHER ->
            [requires_code |-> FALSE, requires_analysis |-> FALSE, complexity_score |-> 50]

CriticalPaths == { Str("main.py"), Str("config.yaml"), Str(".env") }

\* The part of the risk score that the context adds.
ContextRisk(context) ==
    (IF \E i \in DOMAIN context : context[i] = <<"action", Str("modify")>>
     THEN 200 ELSE 0)
    + (IF \E i \in DOMAIN context :
             context[i][1] = "file_path" /\ context[i][2] \in CriticalPaths
       THEN 150 ELSE 0)

\* The sum of _calculate_risk_score before it is clamped.
RiskSum(classification, details, context) ==
    500 + details.complexity_score * 2
    + (IF details.requires_code THEN 150 ELSE 0)
    + (IF details.requires_analysis THEN 100 ELSE 0)
    + (IF classification.confidence < 70 THEN 150 ELSE 0)
    + ContextRisk(context)

\* _calculate_risk_score(classification, context)
CalculateRiskScore(classification, context) ==
    IF RiskSum(classification, Details(classification), context) > 1000 THEN 1000
    ELSE RiskSum(classification, Details(classification), context)

RoutingDecision(tier, confidence, reason, risk_score, compressed_messages, context_tokens) ==
    [tier |-> tier, confidence |-> confidence, reason |-> reason,
     risk_score |-> risk_score, compressed_messages |-> compressed_messages,
     context_tokens |-> context_tokens]

\* What route returns or raises, and the components it has asked.
Routed(decision, consulted) ==
    [raised |-> FALSE, decision |-> decision, consulted |-> consulted]

\* query.split() of the queries routed
WordsOf(query) ==
    CASE query = FixText -> <<"fix">>
      [] query = OkText -> <<"ok">>

\* route from step 2 on: the classification decides.
RouteClassified(messages, context, classification) ==
    IF classification.raised
    THEN [raised |-> TRUE, decision |-> <<>>, consulted |-> {"bm25_search", "classifier"}]
    ELSE Routed(RoutingDecision(classification.tier, classification.confidence,
                                classification.reason,
                                CalculateRiskScore(classification, context),
                                CompressMessages(messages, classification.tier),
                                CountTokens(CompressMessages(messages,
                                                             classification.tier))),
                {"bm25_search", "classifier"})

\* route from step 1 on: the BM25 fast path, then the classifier.
RouteUnforced(bm25_hit, query, messages, context, outcome) ==
    IF bm25_hit # <<>> /\ bm25_hit[1].score * 100 > 90 * ScoreOne
    THEN Routed(RoutingDecision("CACHE_CANDIDATE", bm25_hit[1].score \div 10000,
                                "BM25 found highly similar query", 100,
                                MsgList(messages), CountTokens(messages)),
                {"bm25_search"})
    ELSE RouteClassified(messages, context, Classify(query, context, outcome))

\* The forced decision of route.
RouteForced(tier, messages) ==
    Routed(RoutingDecision(tier, 100, "Forced tier", IF tier = "PREMIUM" THEN 500 ELSE 200,
                           CompressMessages(messages, tier), CountTokens(messages)),
           {})

\* route that consults the index and the classifier whatever force_tier is.
RouteIgnoringForce(bm, query, messages, context, force_tier, outcome) ==
    { RouteUnforced(bm25_hit, query, messages, context, outcome) :
      bm25_hit \in Bm25Search(bm, WordsOf(query), 1, 50) }

\* route(query, messages, context, force_tier) over the index bm when the
\* remote classifier call would end with outcome: the results it can have.
Route(bm, query, messages, context, force_tier, outcome) ==
    IF Truthy(force_tier) THEN { RouteForced(Upper(force_tier), messages) }
    ELSE { RouteUnforced(bm25_hit, query, messages, context, outcome) :
           bm25_hit \in Bm25Search(bm, WordsOf(query), 1, 50) }

(***************************************************************************)
(* The router alone: a list of messages is compressed or a request routed. *)
(* Neither call changes the router or the index, so that a call does not   *)
(* depend on the calls before it and a behaviour is one call.              *)
(***************************************************************************)
MaxMessages == 3

TRLengths == {3, 5327, 15981, 20000}
TRRoles == {"system", "user"}

\* The lists of at most n messages.
RECURSIVE MessageLists(_)
MessageLists(n) ==
    IF n = 0 THEN { <<>> }
    ELSE MessageLists(n - 1) \cup
         { Append(list, Sized(role, chars)) :
           list \in { l \in MessageLists(n - 1) : Len(l) = n - 1 },
           role \in TRRoles, chars \in TRLengths }

TRTiers == {"CHEAP", "PREMIUM"}
TRForceTiers == {None, "", "LOCAL", "CHEAP", "PREMIUM", "premium"}
TRQueries == {FixText, OkText}
TRContexts == { <<>>, << <<"file_path", Str("main.py")>> >> }
TROutcomes == { [kind |-> "timeout", content |-> <<>>],
                [kind |-> "reply",
                 content |-> << [key |-> "TIER", value |-> "premium"],
                                [key |-> "CONFIDENCE", value |-> "0.9"] >>] }

InitTR ==
    /\ IdleInit
    /\ embedding_service = <<>>
    /\ semantic_cache = <<>>
    /\ bm25_search \in {BM25SearchInit}
                         \cup IndexQuery(BM25SearchInit, <<"fix">>, <<AnswerText>>, <<>>, 0)
    /\ policy_gate = <<>>
    /\ circuit_breaker = <<>>

\* self._compress_messages(messages, tier)
TRCompress ==
    /\ last.op = "none"
    /\ \E messages \in MessageLists(MaxMessages), tier \in TRTiers :
          last' = [op |-> "compress", messages |-> MsgList(messages), tier |-> tier,
                   result |-> CompressMessages(messages, tier)]
    /\ UNCHANGED <<now, today, budget_guard, kill_switch, rate_limiter, exact_cache,
                   providers, reqs, hist, components>>

\* await tier_router.route(query, messages, context, force_tier)
TRRoute ==
    /\ last.op = "none"
    /\ \E query \in TRQueries, messages \in MessageLists(1), context \in TRContexts,
          force_tier \in TRForceTiers, outcome \in TROutcomes :
          \E routed \in Route(bm25_search, query, messages, context, force_tier, outcome) :
             last' = [op |-> "route", query |-> query, force_tier |-> force_tier,
                      raised |-> routed.raised, decision |-> routed.decision,
                      consulted |-> routed.consulted]
    /\ UNCHANGED <<now, today, budget_guard, kill_switch, rate_limiter, exact_cache,
                   providers, reqs, hist, components>>

NextTR == TRCompress \/ TRRoute

SpecTR == InitTR /\ [][NextTR]_vars

\* The messages of a list that are system messages.
SystemOf(list) == SelectSeq(list, IsSystem)

\* C25: the result of compression is the system messages of the input,
\* unmodified, followed by non-system messages, and its messages stand in
\* the order they have in the input.
C25_SystemPrefixAndOrder ==
    last.op = "compress"
    => /\ SubSeq(last.result, 1, Len(SystemOf(last.messages))) = SystemOf(last.messages)
       /\ \A i \in DOMAIN last.result :
             i > Len(SystemOf(last.messages)) => NotSystem(last.result[i])
       /\ \A i, j \in DOMAIN last.result :
             i < j => last.result[i].from < last.result[j].from

\* C26: when the system messages alone fit the budget of the tier, the
\* token estimate of the compressed list is at most that budget.
C26_WithinBudget ==
    (/\ last.op = "compress"
     /\ CountTokens(SystemOf(last.messages)) <= TierBudget(last.tier))
    => CountTokens(last.result) <= TierBudget(last.tier)

\* C27: route with force_tier LOCAL, CHEAP or PREMIUM returns that tier with
\* confidence 1.0 and asks neither the BM25 index nor the classifier.
C27_ForcedTier ==
    (last.op = "route" /\ last.force_tier \in {"LOCAL", "CHEAP", "PREMIUM"})
    => /\ ~last.raised
       /\ last.decision.tier = last.force_tier
       /\ last.decision.confidence = 100
       /\ last.consulted = {}

C27_Witness ==
    /\ last.op = "route"
    /\ last.force_tier = "PREMIUM"
    /\ last.decision.tier = "PREMIUM"
    /\ bm25_search.rows # <<>>


(***************************************************************************)
(* PolicyGate with add_pattern (src/security/policy_gate.py).  A pattern   *)
(* tuple is <<pattern, description>>; a built-in pattern is named by its   *)
(* description.  re.search is given by the queries of the model that a     *)
(* pattern matches; the built-in patterns that match none of them are left *)
(* out of the lists.                                                       *)
(***************************************************************************)
PGQueries ==
    { "rm -rf /", "cat /etc/shadow", "; rm x", "nc -l 80", "delete /etc/sudoers",
      "read /etc/sudoers", FixText, "explain eval(x)" }

\* The queries re.search(pattern, query_lower, re.IGNORECASE) finds a match in.
MatchedBy(pattern) ==
    CASE pattern = "rm with root/home path" -> {"rm -rf /"}
      [] pattern = "read system credentials" -> {"cat /etc/shadow"}
      [] pattern = "command injection" -> {"; rm x"}
      [] pattern = "eval execution" -> {"explain eval(x)"}
      [] pattern = "netcat listener" -> {"nc -l 80"}
      [] pattern = "sudoers modification" -> {"delete /etc/sudoers", "read /etc/sudoers"}
      [] pattern = "shadow access" -> {"cat /etc/shadow"}
      [] pattern = "fix" -> {FixText}
      [] pattern = "sudoers" -> {"delete /etc/sudoers", "read /etc/sudoers"}
      [] OTHER -> {}

\* The patterns re.compile rejects: re.search raises re.error.
InvalidPatterns == {"("}

ReSearch(pattern, query) ==
    IF pattern \in InvalidPatterns THEN "error"
    ELSE IF query \in MatchedBy(pattern) THEN "match" ELSE "none"

\* _init_patterns
PolicyGateInit ==
    [destructive_patterns |-> << <<"rm with root/home path", "rm with root/home path">> >>,
     secret_patterns |-> << <<"read system credentials", "read system credentials">> >>,
     injection_patterns |-> << <<"command injection", "command injection">>,
                               <<"eval execution", "eval execution">> >>,
     malicious_patterns |-> << <<"netcat listener", "netcat listener">> >>,
     sensitive_paths |-> << <<"sudoers modification", "sudoers modification">>,
                            <<"shadow access", "shadow access">> >>]

\* _is_likely_code_example(query)
IsLikelyCodeExample(query) == query \in {"explain eval(x)"}

\* _has_dangerous_operation(query)
HasDangerousOperation(query) == query \in {"delete /etc/sudoers"}

\* One loop of check from the i-th pattern on: -1 when re.search raises,
\* the place of the first pattern that matches when a match blocks,
\* 0 when the loop ends.
RECURSIVE Scan(_, _, _, _)
Scan(patterns, query, blocks, i) ==
    IF i > Len(patterns) THEN 0
    ELSE IF ReSearch(patterns[i][1], query) = "error" THEN -1
    ELSE IF ReSearch(patterns[i][1], query) = "match" /\ blocks THEN i
    ELSE Scan(patterns, query, blocks, i + 1)

PolicyViolation(category, pattern, severity) ==
    [raised |-> FALSE,
     violation |-> << [category |-> category, pattern |-> pattern[1],
                       severity |-> severity, message |-> pattern[2]] >>]

\* The loops of check in their order: the list, the category and severity
\* of its violations, and whether a match blocks the query.
Loops(pg, query) ==
    << [patterns |-> pg.destructive_patterns, category |-> "destructive_command",
        severity |-> "critical", blocks |-> TRUE],
       [patterns |-> pg.secret_patterns, category |-> "secret_exposure",
        severity |-> "high", blocks |-> TRUE],
       [patterns |-> pg.injection_patterns, category |-> "injection_attempt",
        severity |-> "high", blocks |-> ~IsLikelyCodeExample(query)],
       [patterns |-> pg.malicious_patterns, category |-> "malicious_code",
        severity |-> "high", blocks |-> TRUE],
       [patterns |-> pg.sensitive_paths, category |-> "sensitive_path",
        severity |-> "medium", blocks |-> HasDangerousOperation(query)] >>

\* check from the n-th loop on, hit being the result of that loop.
RECURSIVE CheckFrom(_, _, _)
CheckLoop(loops, query, n, hit) ==
    IF hit < 0 THEN [raised |-> TRUE, violation |-> <<>>]
    ELSE IF hit > 0
    THEN PolicyViolation(loops[n].category, loops[n].patterns[hit], loops[n].severity)
    ELSE CheckFrom(loops, query, n + 1)

CheckFrom(loops, query, n) ==
    IF n > Len(loops) THEN [raised |-> FALSE, violation |-> <<>>]
    ELSE CheckLoop(loops, query, n,
                   Scan(loops[n].patterns, query, loops[n].blocks, 1))

\* check(query): the violation, <<>> for None, or the re.error raised.
GateCheck(pg, query) == CheckFrom(Loops(pg, query), query, 1)

ViolationCategories ==
    { "destructive_command", "secret_exposure", "injection_attempt", "malicious_code",
      "sensitive_path", "rate_abuse" }

\* add_pattern(category, pattern, description)
AddPattern(pg, category, pattern, description) ==
    CASE category = "destructive_command" ->
            [pg EXCEPT !.destructive_patterns = Append(@, <<pattern, description>>)]
      [] category = "secret_exposure" ->
            [pg EXCEPT !.secret_patterns = Append(@, <<pattern, description>>)]
      [] category = "injection_attempt" ->
            [pg EXCEPT !.injection_patterns = Append(@, <<pattern, description>>)]
      [] category = "malicious_code" ->
            [pg EXCEPT !.malicious_patterns = Append(@, <<pattern, description>>)]
      [] category = "sensitive_path" ->
            [pg EXCEPT !.sensitive_paths = Append(@, <<pattern, description>>)]
      [] OTHER -> pg

(***************************************************************************)
(* The gate alone: patterns are added and queries checked.                 *)
(***************************************************************************)
MaxAdded == 2

AddedPatterns == {"fix", "sudoers", "("}

\* The patterns that add_pattern has appended.
Added(pg) ==
    Len(pg.destructive_patterns) + Len(pg.secret_patterns) + Len(pg.injection_patterns)
    + Len(pg.malicious_patterns) + Len(pg.sensitive_paths)
    - (Len(PolicyGateInit.destructive_patterns) + Len(PolicyGateInit.secret_patterns)
       + Len(PolicyGateInit.injection_patterns) + Len(PolicyGateInit.malicious_patterns)
       + Len(PolicyGateInit.sensitive_paths))

InitPG ==
    /\ IdleInit
    /\ embedding_service = <<>>
    /\ semantic_cache = <<>>
    /\ bm25_search = <<>>
    /\ policy_gate = PolicyGateInit
    /\ circuit_breaker = <<>>

\* policy_gate.add_pattern(category, pattern, description)
PGAddPattern ==
    /\ Added(policy_gate) < MaxAdded
    /\ \E category \in ViolationCategories, pattern \in AddedPatterns :
          /\ policy_gate' = AddPattern(policy_gate, category, pattern, "custom")
          /\ last' = [op |-> "add_pattern", category |-> category, pattern |-> pattern]
    /\ UNCHANGED <<now, today, budget_guard, kill_switch, rate_limiter, exact_cache,
                   providers, reqs, hist, embedding_service, semantic_cache, bm25_search,
                   circuit_breaker>>

\* policy_gate.check(query)
PGCheck ==
    /\ \E query \in PGQueries :
          last' = [op |-> "check", query |-> query, result |-> GateCheck(policy_gate, query)]
    /\ UNCHANGED <<now, today, budget_guard, kill_switch, rate_limiter, exact_cache,
                   providers, reqs, hist, components>>

NextPG == PGAddPattern \/ PGCheck

SpecPG == InitPG /\ [][NextPG]_vars

\* check returns a violation for the query.
Blocks(pg, query) ==
    ~GateCheck(pg, query).raised /\ GateCheck(pg, query).violation # <<>>

\* C28: add_pattern, for every category, leaves every query blocked that
\* check blocked before it.
C28_Monotonic ==
    [][last'.op = "add_pattern"
       => \A query \in PGQueries :
             Blocks(policy_gate, query) => Blocks(policy_gate', query)]_vars

(***************************************************************************)
(* SpecGW: the HTTP endpoints of the gateway (src/main.py:286-354).  A      *)
(* header value is the sequence of its characters.  A chat request that    *)
(* passes verify_auth runs the stages of the pipeline above; the other     *)
(* handlers run in one step.  last is the endpoint called, the             *)
(* Authorization header sent and the status answered (0 while a chat       *)
(* request is still running).                                              *)
(***************************************************************************)
BearerPrefix == <<"B", "e", "a", "r", "e", "r", " ">>
BearerLen == 7

\* settings.GATEWAY_SECRET
GatewaySecret == <<"k", "e", "y">>

\* The Authorization headers the clients send; <<>> is a request without one
\* (request.headers.get("Authorization", "") is then "").
AuthHeaders ==
    { <<>>,
      BearerPrefix \o GatewaySecret,
      BearerPrefix \o <<"k", "e">>,
      <<"b", "e", "a", "r", "e", "r", " ">> \o GatewaySecret }

\* str.startswith
StartsWith(s, prefix) ==
    Len(s) >= Len(prefix) /\ SubSeq(s, 1, Len(prefix)) = prefix

\* What a dependency or a handler answers.
Answer(status, detail) == [status |-> status, detail |-> detail]

\* verify_auth with the comparison of the token left out.
VerifyAuthAnyToken(auth_header) ==
    IF ~StartsWith(auth_header, BearerPrefix)
    THEN Answer(401, "Missing Authorization header")
    ELSE Answer(0, None)

\* verify_auth: 401 is HTTPException(401, ...), 0 is the token returned.
VerifyAuth(auth_header) ==
    IF ~StartsWith(auth_header, BearerPrefix)
    THEN Answer(401, "Missing Authorization header")
    ELSE LET token == SubSeq(auth_header, BearerLen + 1, Len(auth_header))
         IN  IF token # GatewaySecret
             THEN Answer(401, "Invalid API key")
             ELSE Answer(0, None)

\* The request line and header of a call, and the status answered.
Called(op, auth_header, status) ==
    [op |-> op, authorization |-> auth_header, status |-> status]

\* No chat handler is between two awaits.
NoneRunning == \A q \in Requests : reqs[q].pc \notin SyncPcs

\* The bodies of the chat requests sent to the endpoint, and how many of the
\* requests are sent to it.
GWInputs == {4, 6}
GWClients == 1

\* action of POST /admin/kill-switch
KillSwitchActions == {"enable", "disable", "status", "toggle"}

InitGW ==
    /\ ComponentsInit
    /\ now = 0
    /\ today = 0
    /\ budget_guard = BudgetGuardInit
    /\ kill_switch = KillSwitchInit(0)
    /\ rate_limiter = RateLimiterInit(GatewayRPM, GatewayTPM)
    /\ exact_cache = <<>>
    /\ providers \in { p \in ProviderConfigs : p.groq }
    /\ reqs = [r \in Requests |-> ReqIdle]
    /\ last = Called("none", <<>>, 0)
    /\ hist = NoHistory

\* GET /health (main.py:299-316): no dependency on verify_auth.
GWHealth ==
    /\ NoneRunning
    /\ \E auth_header \in AuthHeaders :
          last' = Called("health", auth_header, 200)
    /\ UNCHANGED <<components, now, today, budget_guard, kill_switch, rate_limiter,
                   exact_cache, providers, reqs, hist>>

\* GET /api/metrics (main.py:319-321)
GWGetMetrics ==
    /\ NoneRunning
    /\ \E auth_header \in AuthHeaders :
          LET auth == VerifyAuth(auth_header)
          IN  last' = Called("metrics", auth_header,
                             IF auth.status # 0 THEN auth.status ELSE 200)
    /\ UNCHANGED <<components, now, today, budget_guard, kill_switch, rate_limiter,
                   exact_cache, providers, reqs, hist>>

\* GET /api/budget (main.py:324-326): get_status inserts the row of today.
GWGetBudget ==
    /\ NoneRunning
    /\ \E auth_header \in AuthHeaders :
          LET auth == VerifyAuth(auth_header)
          IN  IF auth.status # 0
              THEN /\ last' = Called("budget", auth_header, auth.status)
                   /\ UNCHANGED budget_guard
              ELSE /\ last' = Called("budget", auth_header, 200)
                   /\ budget_guard' = EnsureTodayRecord(budget_guard, today)
    /\ UNCHANGED <<components, now, today, kill_switch, rate_limiter,
                   exact_cache, providers, reqs, hist>>

\* GET /api/local/models (main.py:329-336)
GWListLocalModels ==
    /\ NoneRunning
    /\ \E auth_header \in AuthHeaders :
          LET auth == VerifyAuth(auth_header)
          IN  last' = Called("local_models", auth_header,
                             IF auth.status # 0 THEN auth.status
                             ELSE IF ~providers.local THEN 503
                             ELSE 200)
    /\ UNCHANGED <<components, now, today, budget_guard, kill_switch, rate_limiter,
                   exact_cache, providers, reqs, hist>>

\* POST /admin/kill-switch (main.py:339-350)
GWToggleKillSwitch ==
    /\ NoneRunning
    /\ \E auth_header \in AuthHeaders, action \in KillSwitchActions :
          LET auth == VerifyAuth(auth_header)
          IN  IF auth.status # 0
              THEN /\ last' = Called("kill_switch", auth_header, auth.status)
                   /\ UNCHANGED <<kill_switch, hist>>
              ELSE IF action = "enable"
              THEN /\ kill_switch' = Enable(kill_switch, "kill", "Manual activation", now)
                   /\ hist' = [hist EXCEPT !.manual = TRUE]
                   /\ last' = Called("kill_switch", auth_header, 200)
              ELSE IF action = "disable"
              THEN /\ kill_switch' = Disable(kill_switch)
                   /\ hist' = [hist EXCEPT !.manual = FALSE]
                   /\ last' = Called("kill_switch", auth_header, 200)
              ELSE /\ last' = Called("kill_switch", auth_header,
                                     IF action = "status" THEN 200 ELSE 400)
                   /\ UNCHANGED <<kill_switch, hist>>
    /\ UNCHANGED <<components, now, today, budget_guard, rate_limiter,
                   exact_cache, providers, reqs>>

\* POST /v1/chat/completions (main.py:353-358): verify_auth, then the handler
\* starts.  Requests are numbered in the order they arrive.
GWChatCompletions(r) ==
    /\ reqs[r].pc = "idle"
    /\ IF r = 1 THEN TRUE ELSE reqs[r - 1].pc # "idle"
    /\ MayRun(r)
    /\ \E auth_header \in AuthHeaders, i \in GWInputs :
          LET auth == VerifyAuth(auth_header)
          IN  /\ reqs' = [reqs EXCEPT ![r] =
                            IF auth.status # 0
                            THEN [ReqIdle EXCEPT !.pc = "done", !.input = i,
                                                 !.status = auth.status,
                                                 !.error = auth.detail]
                            ELSE [ReqIdle EXCEPT !.pc = "policy_gate", !.input = i]]
              /\ last' = Called("chat_completions", auth_header, auth.status)
    /\ UNCHANGED <<components, now, today, budget_guard, kill_switch, rate_limiter,
                   exact_cache, providers, hist>>

NextGW ==
    \/ GWHealth
    \/ GWGetMetrics
    \/ GWGetBudget
    \/ GWListLocalModels
    \/ GWToggleKillSwitch
    \/ \E r \in 1 .. GWClients :
          \/ GWChatCompletions(r)
          \/ PolicyGateStage(r)
          \/ KillSwitchStage(r)
          \/ RateLimitStage(r)
          \/ ExactCacheGetStage(r)
          \/ RouteStage(r)
          \/ DispatchStage(r)
          \/ RecordSpendStage(r)
          \/ ExactCacheSetStage(r)

SpecGW == InitGW /\ [][NextGW]_vars

\* The header carries the gateway's secret as a bearer token.
ValidToken(auth_header) == auth_header = BearerPrefix \o GatewaySecret

\* The state of the gateway behind the endpoints.
gateway == <<components, kill_switch, rate_limiter, exact_cache, budget_guard>>

\* C29: a call of /v1/chat/completions, /api/metrics, /api/budget,
\* /api/local/models or /admin/kill-switch whose Authorization header is not
\* the bearer token of the gateway is answered 401 and changes neither the
\* kill switch, the rate limiter, the caches nor the budget ledger; a call of
\* /health is answered 200 whatever the header.
C29_UnauthorizedIs401 ==
    [][/\ (/\ reqs' = reqs
           /\ last'.op # "health"
           /\ ~ValidToken(last'.authorization))
          => /\ last'.status = 401
             /\ UNCHANGED gateway
       /\ (reqs' = reqs /\ last'.op = "health") => last'.status = 200
       /\ \A r \in Requests :
             (/\ reqs[r].pc = "idle"
              /\ reqs'[r].pc # "idle"
              /\ ~ValidToken(last'.authorization))
             => /\ reqs'[r].pc = "done"
                /\ reqs'[r].status = 401
                /\ reqs'[r].stages = <<>>
                /\ last'.status = 401
                /\ UNCHANGED gateway]_vars

\* The kill switch was enabled by an authorized call, a chat request without
\* a header was answered 401, and an unauthorized call of /admin/kill-switch
\* has just been answered 401.
C29_Witness ==
    /\ last.op = "kill_switch"
    /\ last.authorization = BearerPrefix \o <<"k", "e">>
    /\ last.status = 401
    /\ kill_switch.state.mode = "kill"
    /\ \E r \in Requests : reqs[r].status = 401 /\ reqs[r].error = "Missing Authorization header"

(***************************************************************************)
(* SpecCB: the circuit breaker (src/utils/__init__.py:123-192).  A caller  *)
(* asks can_execute, makes its request when the answer is True and records *)
(* the outcome when the request has ended; other callers run in between.   *)
(* hist counts the requests admitted and not yet recorded, and the probes  *)
(* admitted since the breaker last became HALF_OPEN.                       *)
(***************************************************************************)
FailureThreshold == 5
RecoveryTimeout == 30
HalfOpenRequests == 3

\* Requests admitted and not yet recorded.
MaxInFlight == 4

\* last_failure_time before the first failure (None).  The clock of the model
\* counts from the start of the run, time.time() from 1970: a time recorded
\* is never 0.0 in the program, so only None is falsy.
NoFailureYet == -1

\* CircuitBreaker.__init__
CircuitBreakerInit ==
    [state |-> "CLOSED", failures |-> 0, successes |-> 0,
     last_failure_time |-> NoFailureYet]

\* CircuitBreaker.can_execute at time t: the answer and the object after it.
CanExecute(cb, t) ==
    IF cb.state = "CLOSED" THEN [result |-> TRUE, cb |-> cb]
    ELSE IF cb.state = "OPEN"
    THEN IF cb.last_failure_time # NoFailureYet
            /\ t - cb.last_failure_time > RecoveryTimeout
         THEN [result |-> TRUE,
               cb |-> [cb EXCEPT !.state = "HALF_OPEN", !.successes = 0]]
         ELSE [result |-> FALSE, cb |-> cb]
    ELSE IF cb.state = "HALF_OPEN"
    THEN [result |-> cb.successes < HalfOpenRequests, cb |-> cb]
    ELSE [result |-> FALSE, cb |-> cb]

\* CircuitBreaker.record_success
RecordSuccess(cb) ==
    IF cb.state = "HALF_OPEN"
    THEN IF cb.successes + 1 >= HalfOpenRequests
         THEN [cb EXCEPT !.successes = @ + 1, !.state = "CLOSED", !.failures = 0]
         ELSE [cb EXCEPT !.successes = @ + 1]
    ELSE [cb EXCEPT !.failures = Max(0, @ - 1)]

\* CircuitBreaker.record_failure at time t
RecordFailure(cb, t) ==
    LET failed == [cb EXCEPT !.failures = @ + 1, !.last_failure_time = t]
        tripped == IF failed.failures >= FailureThreshold
                   THEN [failed EXCEPT !.state = "OPEN"]
                   ELSE failed
    IN  IF tripped.state = "HALF_OPEN" THEN [tripped EXCEPT !.state = "OPEN"] ELSE tripped

InitCB ==
    /\ now = 0
    /\ today = 0
    /\ budget_guard = BudgetGuardInit
    /\ kill_switch = KillSwitchInit(0)
    /\ rate_limiter = RateLimiterInit(RequestsPerMinute, TokensPerMinute)
    /\ exact_cache = <<>>
    /\ providers = NoProviders
    /\ reqs = <<>>
    /\ last = NoCall
    /\ hist = [in_flight |-> 0, probes |-> 0]
    /\ embedding_service = <<>>
    /\ semantic_cache = <<>>
    /\ bm25_search = <<>>
    /\ policy_gate = <<>>
    /\ circuit_breaker = CircuitBreakerInit

\* A caller asks can_execute() and, admitted, starts its request.
CBCanExecute ==
    /\ hist.in_flight < MaxInFlight
    /\ LET asked == CanExecute(circuit_breaker, now)
       IN  /\ circuit_breaker' = asked.cb
           /\ last' = [op |-> "can_execute", result |-> asked.result]
           /\ hist' = IF ~asked.result THEN hist
                      ELSE [in_flight |-> hist.in_flight + 1,
                            probes |-> IF asked.cb.state # "HALF_OPEN" THEN hist.probes
                                       ELSE IF circuit_breaker.state = "OPEN" THEN 1
                                       ELSE hist.probes + 1]
    /\ UNCHANGED <<now, today, budget_guard, kill_switch, rate_limiter, exact_cache,
                   providers, reqs, embedding_service, semantic_cache, bm25_search,
                   policy_gate>>

\* A request that was admitted ends well: record_success().
CBRecordSuccess ==
    /\ hist.in_flight > 0
    /\ circuit_breaker' = RecordSuccess(circuit_breaker)
    /\ last' = [op |-> "record_success"]
    /\ hist' = [hist EXCEPT !.in_flight = @ - 1]
    /\ UNCHANGED <<now, today, budget_guard, kill_switch, rate_limiter, exact_cache,
                   providers, reqs, embedding_service, semantic_cache, bm25_search,
                   policy_gate>>

\* A request that was admitted fails: record_failure().
CBRecordFailure ==
    /\ hist.in_flight > 0
    /\ circuit_breaker' = RecordFailure(circuit_breaker, now)
    /\ last' = [op |-> "record_failure"]
    /\ hist' = [hist EXCEPT !.in_flight = @ - 1]
    /\ UNCHANGED <<now, today, budget_guard, kill_switch, rate_limiter, exact_cache,
                   providers, reqs, embedding_service, semantic_cache, bm25_search,
                   policy_gate>>

NextCB == CBCanExecute \/ CBRecordSuccess \/ CBRecordFailure \/ Tick

SpecCB == InitCB /\ [][NextCB]_vars

\* C33: while the breaker is HALF_OPEN, the probes can_execute has admitted
\* since it became HALF_OPEN are at most half_open_requests.
C33_AtMostThreeProbes ==
    circuit_breaker.state = "HALF_OPEN" => hist.probes <= HalfOpenRequests

(***************************************************************************)
(* SpecER: the error-rate trigger of the kill switch (kill_switch.py:      *)
(* 127-136, 174-192).  hist.outcomes is the log of the record_request      *)
(* calls: for each time of a call, how many outcomes and how many errors   *)
(* were recorded at that time.                                             *)
(***************************************************************************)
\* The log after an outcome recorded at time t.
Logged(outcomes, success, t) ==
    LET error == IF success THEN 0 ELSE 1
    IN  IF outcomes # <<>> /\ outcomes[Len(outcomes)].t = t
        THEN [outcomes EXCEPT ![Len(outcomes)] =
                [t |-> t, requests |-> @.requests + 1, errors |-> @.errors + error]]
        ELSE Append(outcomes, [t |-> t, requests |-> 1, errors |-> error])

InitER ==
    /\ now = 0
    /\ today = 0
    /\ budget_guard = BudgetGuardInit
    /\ kill_switch = KillSwitchInit(0)
    /\ rate_limiter = RateLimiterInit(RequestsPerMinute, TokensPerMinute)
    /\ exact_cache = <<>>
    /\ providers = NoProviders
    /\ reqs = <<>>
    /\ last = NoCall
    /\ hist = [outcomes |-> <<>>]
    /\ ComponentsInit

\* kill_switch.record_request(success)
ERRecordRequest ==
    /\ \E success \in BOOLEAN :
        /\ SumSeq([i \in DOMAIN hist.outcomes |-> hist.outcomes[i].requests]) < MaxRecent
        /\ kill_switch' = RecordRequest(kill_switch, success, now)
        /\ hist' = [outcomes |-> Logged(hist.outcomes, success, now)]
        /\ last' = [op |-> "record_request", success |-> success]
    /\ UNCHANGED <<components, now, today, budget_guard, rate_limiter, exact_cache, providers,
                   reqs>>

\* kill_switch.check()
ERCheck ==
    /\ LET r == KillSwitchCheck(kill_switch, budget_guard, today, now)
       IN  /\ kill_switch' = r.ks
           /\ budget_guard' = r.bg
           /\ last' = [op |-> "ks_check", result |-> r.gate]
    /\ UNCHANGED <<components, now, today, rate_limiter, exact_cache, providers, reqs, hist>>

NextER == ERRecordRequest \/ ERCheck \/ Tick

SpecER == InitER /\ [][NextER]_vars

\* The outcomes, and the errors among them, recorded within the last minute.
RecentOutcomes ==
    SumSeq([i \in DOMAIN hist.outcomes |->
              IF now - hist.outcomes[i].t <= ErrorWindow
              THEN hist.outcomes[i].requests ELSE 0])

RecentErrors ==
    SumSeq([i \in DOMAIN hist.outcomes |->
              IF now - hist.outcomes[i].t <= ErrorWindow
              THEN hist.outcomes[i].errors ELSE 0])

\* C35: a check activates throttle on account of the error rate only when at
\* least 10 outcomes were recorded within the last minute and the errors
\* among them are more than error_threshold of them.
C35_ErrorRateWindow ==
    [][(/\ kill_switch.state.mode = "off"
        /\ kill_switch'.state.mode = "throttle"
        /\ kill_switch'.state.activated_by = "error_rate")
       => /\ RecentOutcomes >= MinSample
          /\ RecentErrors * kill_switch.error_threshold.den
               > kill_switch.error_threshold.num * RecentOutcomes]_vars

=============================================================================
